---------------------------- MODULE Spec2Model ----------------------------
(***************************************************************************)
(* A model of server.py, the Facebook Ads MCP server: the memoized         *)
(* credential (_get_fb_access_token), the Graph API gateway                *)
(* (_make_graph_api_call), the pagination passthrough                      *)
(* (fetch_pagination_url), the resource tools and the two report tools.    *)
(*                                                                         *)
(* Representation of Python values.  A str is a sequence of fragments      *)
(* (each fragment a piece of text; Text joins them into the characters of  *)
(* the str); concatenation is \o, '' is << >>.  None is the marker None    *)
(* below, which is the text of no string of the model.  An exception is a  *)
(* record of its class and its message.                                    *)
(***************************************************************************)
EXTENDS Integers, Sequences, FiniteSets, TLC

VARIABLES
    environ,          \* os.environ.get('FB_ACCESS_TOKEN'): None when unset
    argv,             \* sys.argv
    FB_ACCESS_TOKEN,  \* the module global of line 25
    call,             \* the last completed call: operation, arguments, outcome
    sent,             \* the HTTP requests the last call issued, in order
    resolved,         \* history: the value the first returning resolution returned
    pc,               \* concurrent invocations: the line each one is at
    seen,             \* concurrent invocations: what each one read or returned
    writes,           \* concurrent invocations: assignments made to the global
    mcp,              \* the tools registered with mcp, in order of registration
    main              \* the execution of the module: its __name__ and position

vars ==
    <<environ, argv, FB_ACCESS_TOKEN, call, sent, resolved, pc, seen, writes, mcp, main>>

-----------------------------------------------------------------------------
(* Python values *)

None == <<"<None>">>

\* the text of a str: its fragments joined into one string of characters
RECURSIVE Text(_)
Text(s) == IF s = << >> THEN "" ELSE Head(s) \o Text(Tail(s))

\* The characters str.strip() removes (those with str.isspace()): space, \t,
\* \n, \r, \f, \x0b, \x1c-\x1f, \x85 and \xa0.  The whitespace code points
\* above U+00FF (U+1680, U+2000-U+200A, U+2028, U+2029, U+202F, U+205F,
\* U+3000) cannot be written in a string of this module and are not in WS.
WS ==
    {" ", "\t", "\n", "\r", "\f", "", "", "", "", "", "", " "}

\* `not v` for an Optional[str] / Optional[list] / Optional[dict] held as a sequence
Falsy(v) == v = None \/ v = << >>

RECURSIVE LStrip(_)
LStrip(t) == IF t # "" /\ SubSeq(t, 1, 1) \in WS THEN LStrip(SubSeq(t, 2, Len(t))) ELSE t

RECURSIVE RStrip(_)
RStrip(t) ==
    IF t # "" /\ SubSeq(t, Len(t), Len(t)) \in WS THEN RStrip(SubSeq(t, 1, Len(t) - 1))
    ELSE t

\* str.strip(), character by character over the text of s; '' is << >>
Strip(s) ==
    LET t == RStrip(LStrip(Text(s)))
    IN  IF t = "" THEN << >> ELSE <<t>>

\* `needle in hay` for two strs: the text of needle is a run of consecutive
\* characters of the text of hay, however the two are cut into fragments
Contains(hay, needle) ==
    LET h == Text(hay)
        n == Text(needle)
    IN  \E i \in 1..(Len(h) - Len(n) + 1) : SubSeq(h, i, i + Len(n) - 1) = n

\* t.startswith(p) for two texts
StartsWith(t, p) == Len(p) <= Len(t) /\ SubSeq(t, 1, Len(p)) = p

\* t.find(c) of a text from position i on, 1-based, 0 when c is not there
Find(t, c, i) ==
    IF \E j \in i..Len(t) : SubSeq(t, j, j) = c
    THEN CHOOSE j \in i..Len(t) :
            SubSeq(t, j, j) = c /\ \A k \in i..(j - 1) : SubSeq(t, k, k) # c
    ELSE 0

\* list.index(x): the first position of x, 0 when x is not in the list
\* (Python raises ValueError then; positions here are 1-based)
Index(list, x) ==
    IF \E i \in 1..Len(list) : list[i] = x
    THEN CHOOSE i \in 1..Len(list) :
            list[i] = x /\ \A j \in 1..(i - 1) : list[j] # x
    ELSE 0

\* The characters of code 1 to 255, each at the position of its code.  (A
\* string of this module cannot hold a grave accent alone: a space stands at
\* position 96 and Grave is the character.  Code points above U+00FF cannot
\* be written here; the strs of the model have none.)
Chars ==
    "\t\n\f\r !\"#$%&'()*+,-./0123456789:;<=>?@ABCDEFGHIJKLMNOPQRSTUVWXYZ[\\]^_ abcdefghijklmnopqrstuvwxyz{|}~ ¡¢£¤¥¦§¨©ª«¬­®¯°±²³´µ¶·¸¹º»¼½¾¿ÀÁÂÃÄÅÆÇÈÉÊËÌÍÎÏÐÑÒÓÔÕÖ×ØÙÚÛÜÝÞßàáâãäåæçèéêëìíîïðñòóôõö÷øùúûüýþÿ"

Grave == SubSeq("`'", 1, 1)

Codes == (1..255) \ {96}

\* the characters of Chars
Coded == {SubSeq(Chars, i, i) : i \in Codes}

CodeOf == [c \in Coded |-> CHOOSE i \in Codes : SubSeq(Chars, i, i) = c]

\* ord(c) of a character (0 is the code of NUL, the one left)
Ord(c) == IF c = Grave THEN 96 ELSE IF c \in Coded THEN CodeOf[c] ELSE 0

HexDigits == "0123456789abcdef"

\* '%02x' % n
Hex2(n) ==
    SubSeq(HexDigits, (n \div 16) + 1, (n \div 16) + 1)
    \o SubSeq(HexDigits, (n % 16) + 1, (n % 16) + 1)

\* repr() of one character of a str written between the quotes q: the
\* backslash and q escaped, \t \n \r by name, every other character that is
\* not printable (str.isprintable: the controls, \x7f-\xa0, \xad) as \xNN
ReprChar(c, q) ==
    CASE c = "\\" -> "\\\\"
      [] c = q -> "\\" \o c
      [] c = "\t" -> "\\t"
      [] c = "\n" -> "\\n"
      [] c = "\r" -> "\\r"
      [] OTHER -> IF Ord(c) < 32 \/ Ord(c) \in 127..160 \/ Ord(c) = 173
                  THEN "\\x" \o Hex2(Ord(c)) ELSE c

\* the characters of a text one after the other (the text by halves)
RECURSIVE ReprChars(_, _)
ReprChars(t, q) ==
    IF t = "" THEN ""
    ELSE IF Len(t) = 1 THEN ReprChar(t, q)
    ELSE ReprChars(SubSeq(t, 1, Len(t) \div 2), q)
         \o ReprChars(SubSeq(t, (Len(t) \div 2) + 1, Len(t)), q)

\* repr(t) of a text: between single quotes, or between double quotes when
\* the text holds a single quote and no double quote
ReprText(t) ==
    LET q == IF Find(t, "'", 1) # 0 /\ Find(t, "\"", 1) = 0 THEN "\"" ELSE "'"
    IN  q \o ReprChars(t, q) \o q

\* json.dumps of one character of a str (ensure_ascii, the default): the
\* double quote and the backslash escaped, \n \r \t \b \f by name, every other
\* character outside ' ' to '~' as \uXXXX
JsonChar(c) ==
    CASE c = "\"" -> "\\\""
      [] c = "\\" -> "\\\\"
      [] c = "\n" -> "\\n"
      [] c = "\r" -> "\\r"
      [] c = "\t" -> "\\t"
      [] c = "\f" -> "\\f"
      [] OTHER -> IF Ord(c) = 8 THEN "\\b"
                  ELSE IF Ord(c) \in 32..126 THEN c
                  ELSE "\\u00" \o Hex2(Ord(c))

RECURSIVE JsonChars(_)
JsonChars(t) ==
    IF t = "" THEN ""
    ELSE IF Len(t) = 1 THEN JsonChar(t)
    ELSE JsonChars(SubSeq(t, 1, Len(t) \div 2))
         \o JsonChars(SubSeq(t, (Len(t) \div 2) + 1, Len(t)))

-----------------------------------------------------------------------------
(* Python numbers *)

\* An int or a float, and None where the code has an Optional number.  A
\* finite number is (-1)^neg * m * 10^e: for an int e is 0; a float is held
\* by the shortest decimal that reads back as it, m without a final zero
\* (the repr of the float).  Zero keeps its sign (-0.0).  m is below 2^31:
\* a number of more significant digits than that is beyond the model.
Integer(n) == [kind |-> "int", neg |-> n < 0, m |-> IF n < 0 THEN 0 - n ELSE n, e |-> 0]

RECURSIVE Float(_, _, _)
Float(neg, m, e) ==
    IF m = 0 THEN [kind |-> "float", neg |-> neg, m |-> 0, e |-> 0]
    ELSE IF m % 10 = 0 THEN Float(neg, m \div 10, e + 1)
    ELSE [kind |-> "float", neg |-> neg, m |-> m, e |-> e]

\* the value of an int, and m with the sign of a float
Signed(x) == IF x.neg THEN 0 - x.m ELSE x.m

Inf(neg) == [kind |-> "inf", neg |-> neg, m |-> 0, e |-> 0]
NaN == [kind |-> "nan", neg |-> FALSE, m |-> 0, e |-> 0]

\* None for an Optional[float]
NoFloat == [kind |-> "None", neg |-> FALSE, m |-> 0, e |-> 0]

RECURSIVE Pow10(_)
Pow10(n) == IF n = 0 THEN 1 ELSE 10 * Pow10(n - 1)

RECURSIVE Zeros(_)
Zeros(n) == IF n <= 0 THEN "" ELSE "0" \o Zeros(n - 1)

\* `not x` for a number or None
FalsyNumber(x) == x.kind = "None" \/ (x.kind \in {"int", "float"} /\ x.m = 0)

\* float.__repr__ of a finite float: the digits of m with the point where e
\* puts it; an exponent when the point would stand more than 16 digits after
\* the first digit or 4 or more places before it
FiniteRepr(x) ==
    LET ds == ToString(x.m)
        nd == Len(ds)
        decpt == nd + x.e
        ex == decpt - 1
        ax == IF ex < 0 THEN 0 - ex ELSE ex
    IN  (IF x.neg THEN "-" ELSE "")
        \o (IF decpt > -4 /\ decpt <= 16
            THEN IF decpt <= 0 THEN "0." \o Zeros(0 - decpt) \o ds
                 ELSE IF decpt >= nd THEN ds \o Zeros(decpt - nd) \o ".0"
                 ELSE SubSeq(ds, 1, decpt) \o "." \o SubSeq(ds, decpt + 1, nd)
            ELSE SubSeq(ds, 1, 1)
                 \o (IF nd > 1 THEN "." \o SubSeq(ds, 2, nd) ELSE "")
                 \o "e" \o (IF ex < 0 THEN "-" ELSE "+")
                 \o (IF ax < 10 THEN "0" ELSE "") \o ToString(ax))

\* repr(x) of a number or None
ReprNumber(x) ==
    CASE x.kind = "None" -> "None"
      [] x.kind = "int" -> (IF x.neg THEN "-" ELSE "") \o ToString(x.m)
      [] x.kind = "inf" -> IF x.neg THEN "-inf" ELSE "inf"
      [] x.kind = "nan" -> "nan"
      [] OTHER -> FiniteRepr(x)

\* json.dumps(x) of a number or None (allow_nan, the default)
DumpsNumber(x) ==
    CASE x.kind = "None" -> "null"
      [] x.kind = "inf" -> IF x.neg THEN "-Infinity" ELSE "Infinity"
      [] x.kind = "nan" -> "NaN"
      [] OTHER -> ReprNumber(x)

-----------------------------------------------------------------------------
(* Credential resolver: _get_fb_access_token, lines 28-71 *)

FlagText == <<"--fb-token">>

\* str(e) of the ValueError list.index raises (CPython: "'x' is not in list")
MsgNotInList == <<"'">> \o FlagText \o <<"' is not in list">>

\* line 58
MsgNoValue == FlagText \o <<" flag provided but no token value found">>

\* lines 62-65
MsgNotProvided ==
    <<"Facebook access token not provided. ",
      "Set FB_ACCESS_TOKEN environment variable or run with: python server.py ">>
    \o FlagText \o <<" YOUR_TOKEN">>

\* line 69
MsgEmpty == <<"Facebook access token cannot be empty">>

Raise(class, msg) == [raised |-> TRUE, exc |-> class, msg |-> msg, value |-> None]
Return(v) == [raised |-> FALSE, exc |-> "", msg |-> << >>, value |-> v]

\* lines 59-65: the handler of the ValueError raised inside the try of line 53
ArgvHandler(e) ==
    IF Contains(e.msg, FlagText) THEN e ELSE Raise("ValueError", MsgNotProvided)

\* lines 53-65: the token that follows --fb-token in sys.argv, or the error raised
ParseArgv(av) ==
    LET i == Index(av, FlagText)
    IN  IF i = 0 THEN ArgvHandler(Raise("ValueError", MsgNotInList))
        ELSE IF i < Len(av) THEN Return(av[i + 1])
        ELSE ArgvHandler(Raise("ValueError", MsgNoValue))

\* a resolver that consults its sources on every call
CacheMiss_Always(tok) == TRUE

\* line 47: the memo is consulted only while the global is None
CacheMiss(tok) == tok = None

\* line 68
IsEmptyToken(tok) == Falsy(tok) \/ Strip(tok) = << >>

\* The whole function as one step: the outcome, the global it leaves behind
\* (global) and whether the environment and sys.argv were read.
ResolveToken(tok, env, av) ==
    IF ~CacheMiss(tok)
    THEN [out |-> Return(tok), global |-> tok, readEnv |-> FALSE, readArgv |-> FALSE]
    ELSE
      LET t1 == env                                   \* line 49
      IN  IF ~Falsy(t1)                               \* line 52
          THEN [out |-> IF IsEmptyToken(t1) THEN Raise("ValueError", MsgEmpty)
                        ELSE Return(t1),
                global |-> t1, readEnv |-> TRUE, readArgv |-> FALSE]
          ELSE
            LET p == ParseArgv(av)
            IN  IF p.raised
                THEN [out |-> p, global |-> t1, readEnv |-> TRUE, readArgv |-> TRUE]
                ELSE [out |-> IF IsEmptyToken(p.value)
                              THEN Raise("ValueError", MsgEmpty)
                              ELSE Return(p.value),
                      global |-> p.value, readEnv |-> TRUE, readArgv |-> TRUE]

-----------------------------------------------------------------------------
(* Bounded inputs of the credential resolver *)

TokA == <<"A">>
TokB == <<"B">>
TokC == <<" ", "C">>
Blank == <<" ", "\r">>
Prog == <<"server.py">>

Environs == {None, << >>, Blank, TokA, TokB}

Argvs ==
    { <<Prog>>, <<Prog, FlagText>>, <<Prog, FlagText, << >> >>,
      <<Prog, FlagText, Blank>>, <<Prog, FlagText, TokC>>,
      <<Prog, <<"--transport">>, <<"sse">>, FlagText, TokA>> }

\* The record of a completed call: the operation, its arguments, the outcomes
\* the HTTP layer gave its requests (in order), what it returned or raised, and
\* whether its credential resolution read the environment and sys.argv.
Call(op, args, responses, out, readEnv, readArgv) ==
    [op |-> op, args |-> args, responses |-> responses, out |-> out,
     readEnv |-> readEnv, readArgv |-> readArgv]

NoCall == Call("none", << >>, << >>, Return(None), FALSE, FALSE)

\* the record of a tool call: cred is what its credential resolution returned
\* or raised
ToolCall(op, args, responses, out, r) ==
    [op |-> op, args |-> args, responses |-> responses, out |-> out,
     readEnv |-> r.readEnv, readArgv |-> r.readArgv, cred |-> r.out]

\* the number of concurrent invocations of the interleaved specification
NThreads == 2

Threads == 1..NThreads

\* the outcome of an invocation that has not finished
Pending == [raised |-> FALSE, exc |-> "pending", msg |-> << >>, value |-> None]

\* what the interleaved invocations hold while a specification does not run them
NoThreads ==
    /\ pc = [t \in Threads |-> "idle"]
    /\ seen = [t \in Threads |-> Pending]
    /\ writes = << >>

\* the tools in the order of their @mcp.tool() decorators: those of lines
\* 118-708, above the entry point of line 715, and the one of line 751
ToolsAboveMain ==
    <<"list_ad_accounts", "get_details_of_ad_account", "get_campaigns_by_adaccount",
      "get_campaign_by_id", "get_adsets_by_campaign", "get_adset_by_id",
      "get_ads_by_adset", "get_ad_by_id", "get_campaign_insights",
      "get_adset_insights", "get_ad_insights", "get_comprehensive_ad_report",
      "fetch_pagination_url">>

ToolsBelowMain == <<"get_summary_report">>

\* the execution of the module: name is its __name__, at the statement it
\* has reached, code the exit status of the process, stdout the encoding of
\* sys.stdout
Main(name, at, code) == [name |-> name, at |-> at, code |-> code, stdout |-> "utf-8"]

\* the module imported and executed to its end
Loaded ==
    /\ mcp = ToolsAboveMain \o ToolsBelowMain
    /\ main = Main("server", "end", 0)

-----------------------------------------------------------------------------
(* The credential resolver called in sequence, with its sources changing    *)
(* between the calls: specification SpecCred.                               *)

InitCred ==
    /\ environ \in Environs
    /\ argv \in Argvs
    /\ FB_ACCESS_TOKEN = None
    /\ call = NoCall
    /\ sent = << >>
    /\ resolved = None
    /\ NoThreads
    /\ Loaded

\* os.environ['FB_ACCESS_TOKEN'] is set, changed or unset
SetEnviron ==
    /\ \E v \in Environs \ {environ} : environ' = v
    /\ UNCHANGED <<argv, FB_ACCESS_TOKEN, call, sent, resolved, pc, seen, writes, mcp, main>>

\* sys.argv is replaced
SetArgv ==
    /\ \E a \in Argvs \ {argv} : argv' = a
    /\ UNCHANGED <<environ, FB_ACCESS_TOKEN, call, sent, resolved, pc, seen, writes, mcp, main>>

\* the first returned value is remembered (history only)
Remember(out) == IF resolved = None /\ ~out.raised THEN out.value ELSE resolved

\* one call of _get_fb_access_token() (line 731, and the first line of every tool)
GetToken ==
    LET r == ResolveToken(FB_ACCESS_TOKEN, environ, argv)
    IN  /\ FB_ACCESS_TOKEN' = r.global
        /\ call' = Call("_get_fb_access_token", << >>, << >>, r.out,
                         r.readEnv, r.readArgv)
        /\ resolved' = Remember(r.out)
        /\ UNCHANGED <<environ, argv, sent, pc, seen, writes, mcp, main>>

NextCred == SetEnviron \/ SetArgv \/ GetToken

SpecCred == InitCred /\ [][NextCred]_vars

\* the last call was a credential resolution
Resolving == call.op = "_get_fb_access_token"

\* a source currently yields a non-empty string
EnvYields == ~Falsy(environ)
ArgvYields == ~ParseArgv(argv).raised /\ ~Falsy(ParseArgv(argv).value)

\* C2 (as claimed): every resolution that returns yields a non-empty, non-blank
\* token, and every resolution made while neither the environment variable nor
\* --fb-token yields a non-empty string (and no valid token is memoized) fails
\* with ValueError.
C2_NonEmptyCredential ==
    Resolving =>
        /\ ~call.out.raised =>
              /\ call.out.value # None
              /\ call.out.value # << >>
              /\ Strip(call.out.value) # << >>
        /\ ~EnvYields /\ ~ArgvYields /\ IsEmptyToken(FB_ACCESS_TOKEN) =>
              call.out.raised /\ call.out.exc = "ValueError"

\* C3: once a resolution has returned a token, every later resolution returns
\* the identical value and reads neither the environment nor sys.argv.
C3_ResolvedOnce ==
    [][ (resolved # None /\ call' # call /\ call'.op = "_get_fb_access_token") =>
            /\ ~call'.out.raised
            /\ call'.out.value = resolved
            /\ ~call'.readEnv
            /\ ~call'.readArgv ]_vars

\* C3 witness: a resolution answered from the memo although the environment
\* now holds another token.
C3_Witness ==
    /\ Resolving /\ ~call.out.raised /\ ~call.readEnv
    /\ resolved \in {TokA, TokB}
    /\ call.out.value = resolved
    /\ environ \in {TokA, TokB} \ {resolved}

\* C11 (as claimed): a resolution that consulted sys.argv and failed reports
\* "--fb-token flag provided but no token value found" when --fb-token is the
\* last argument, and the "Facebook access token not provided. ..." message
\* when the environment variable is unset and --fb-token is not in sys.argv.
C11_DistinctMessages ==
    (Resolving /\ call.readArgv /\ call.out.raised) =>
        /\ Index(argv, FlagText) = Len(argv) => call.out.msg = MsgNoValue
        /\ (environ = None /\ Index(argv, FlagText) = 0) =>
                call.out.msg = MsgNotProvided

-----------------------------------------------------------------------------
(* Concurrent first invocations of _get_fb_access_token: specification      *)
(* SpecConc.  The function takes no lock and keeps no local copy: every     *)
(* statement reads or assigns the module global, so each access of the      *)
(* global is one step of the invocation that makes it.                      *)

InitConc ==
    /\ environ \in Environs
    /\ argv \in Argvs
    /\ FB_ACCESS_TOKEN = None
    /\ call = NoCall
    /\ sent = << >>
    /\ resolved = None
    /\ NoThreads
    /\ Loaded

Goto(t, l) == pc' = [pc EXCEPT ![t] = l]

Finish(t, out) ==
    /\ seen' = [seen EXCEPT ![t] = out]
    /\ Goto(t, IF out.raised THEN "raised" ELSE "done")

\* an assignment to the global; writes keeps the values the memo was set to
Assign(v) ==
    /\ FB_ACCESS_TOKEN' = v
    /\ writes' = IF v = None THEN writes ELSE Append(writes, v)

\* a tool invocation enters _get_fb_access_token
Enter(t) ==
    /\ pc[t] = "idle"
    /\ Goto(t, "l47")
    /\ UNCHANGED <<environ, argv, FB_ACCESS_TOKEN, call, sent, resolved, seen, writes, mcp, main>>

\* line 47: if FB_ACCESS_TOKEN is None
L47(t) ==
    /\ pc[t] = "l47"
    /\ Goto(t, IF CacheMiss(FB_ACCESS_TOKEN) THEN "l49" ELSE "l71")
    /\ UNCHANGED <<environ, argv, FB_ACCESS_TOKEN, call, sent, resolved, seen, writes, mcp, main>>

\* line 49: FB_ACCESS_TOKEN = os.environ.get('FB_ACCESS_TOKEN')
L49(t) ==
    /\ pc[t] = "l49"
    /\ Assign(environ)
    /\ Goto(t, "l52")
    /\ UNCHANGED <<environ, argv, call, sent, resolved, seen, mcp, main>>

\* line 52: if not FB_ACCESS_TOKEN
L52(t) ==
    /\ pc[t] = "l52"
    /\ Goto(t, IF Falsy(FB_ACCESS_TOKEN) THEN "l53" ELSE "l68")
    /\ UNCHANGED <<environ, argv, FB_ACCESS_TOKEN, call, sent, resolved, seen, writes, mcp, main>>

\* lines 53-65: the token is taken from sys.argv, or the ValueError leaves
L53(t) ==
    /\ pc[t] = "l53"
    /\ LET p == ParseArgv(argv)
       IN  IF p.raised
           THEN Finish(t, p) /\ UNCHANGED <<FB_ACCESS_TOKEN, writes>>
           ELSE Assign(p.value) /\ Goto(t, "l68") /\ UNCHANGED seen
    /\ UNCHANGED <<environ, argv, call, sent, resolved, mcp, main>>

\* line 68, first operand: not FB_ACCESS_TOKEN
L68(t) ==
    /\ pc[t] = "l68"
    /\ IF Falsy(FB_ACCESS_TOKEN)
       THEN Finish(t, Raise("ValueError", MsgEmpty))
       ELSE Goto(t, "l68b") /\ UNCHANGED seen
    /\ UNCHANGED <<environ, argv, FB_ACCESS_TOKEN, call, sent, resolved, writes, mcp, main>>

\* line 68, second operand: FB_ACCESS_TOKEN.strip() == '' (the global is read
\* again; None has no strip)
L68b(t) ==
    /\ pc[t] = "l68b"
    /\ IF FB_ACCESS_TOKEN = None
       THEN Finish(t, Raise("AttributeError", <<"'NoneType' object has no attribute 'strip'">>))
       ELSE IF Strip(FB_ACCESS_TOKEN) = << >>
       THEN Finish(t, Raise("ValueError", MsgEmpty))
       ELSE Goto(t, "l71") /\ UNCHANGED seen
    /\ UNCHANGED <<environ, argv, FB_ACCESS_TOKEN, call, sent, resolved, writes, mcp, main>>

\* line 71: return FB_ACCESS_TOKEN (the global as it is now)
L71(t) ==
    /\ pc[t] = "l71"
    /\ Finish(t, Return(FB_ACCESS_TOKEN))
    /\ UNCHANGED <<environ, argv, FB_ACCESS_TOKEN, call, sent, resolved, writes, mcp, main>>

NextConc ==
    \E t \in Threads :
        \/ Enter(t) \/ L47(t) \/ L49(t) \/ L52(t) \/ L53(t)
        \/ L68(t) \/ L68b(t) \/ L71(t)

SpecConc == InitConc /\ [][NextConc]_vars

\* C4 (as claimed): under any interleaving of first invocations the global is
\* assigned at most once, every invocation that obtains a credential obtains
\* a valid (non-None, non-blank) token, and all of them obtain the same one.
C4_WrittenOnce ==
    /\ Len(writes) <= 1
    /\ \A t \in Threads :
          pc[t] = "done" => ~IsEmptyToken(seen[t].value)
    /\ \A t, u \in Threads :
          pc[t] = "done" /\ pc[u] = "done" => seen[t].value = seen[u].value

-----------------------------------------------------------------------------
(* The values json decodes: their json.dumps, repr and str *)

\* sep.join(list)
RECURSIVE Join(_, _)
Join(list, sep) ==
    IF list = << >> THEN << >>
    ELSE IF Len(list) = 1 THEN list[1]
    ELSE list[1] \o sep \o Join(Tail(list), sep)

\* The values an argument decoded from JSON holds, each under the name of its
\* Python type: None, a bool, a str, an int or a float, a list of values, a
\* dict as the sequence of its <<key, value>> pairs, the keys strs
PyNone == [py |-> "NoneType"]
PyBool(b) == [py |-> "bool", b |-> b]
PyStr(s) == [py |-> "str", s |-> s]
PyNumber(x) ==
    IF x.kind = "None" THEN PyNone
    ELSE [py |-> IF x.kind = "int" THEN "int" ELSE "float", x |-> x]
PyList(items) == [py |-> "list", items |-> items]
PyDict(pairs) == [py |-> "dict", pairs |-> pairs]

\* json.dumps of a str
DumpsStr(s) == <<"\"" \o JsonChars(Text(s)) \o "\"">>

RECURSIVE Dumps(_)

\* json.dumps of a dict, given as its pairs
DumpsDict(pairs) ==
    <<"{">>
    \o Join([i \in 1..Len(pairs) |->
                DumpsStr(pairs[i][1]) \o <<": ">> \o Dumps(pairs[i][2])], <<", ">>)
    \o <<"}">>

\* json.dumps of a list, given as its items
DumpsList(items) ==
    <<"[">> \o Join([i \in 1..Len(items) |-> Dumps(items[i])], <<", ">>) \o <<"]">>

\* json.dumps of a value
Dumps(v) ==
    CASE v.py = "NoneType" -> <<"null">>
      [] v.py = "bool" -> IF v.b THEN <<"true">> ELSE <<"false">>
      [] v.py = "str" -> DumpsStr(v.s)
      [] v.py \in {"int", "float"} -> <<DumpsNumber(v.x)>>
      [] v.py = "list" -> DumpsList(v.items)
      [] v.py = "dict" -> DumpsDict(v.pairs)

RECURSIVE Repr(_)

\* repr of a dict, given as its pairs
ReprDict(pairs) ==
    <<"{">>
    \o Join([i \in 1..Len(pairs) |->
                <<ReprText(Text(pairs[i][1]))>> \o <<": ">> \o Repr(pairs[i][2])],
            <<", ">>)
    \o <<"}">>

\* repr of a value
Repr(v) ==
    CASE v.py = "NoneType" -> <<"None">>
      [] v.py = "bool" -> IF v.b THEN <<"True">> ELSE <<"False">>
      [] v.py = "str" -> <<ReprText(Text(v.s))>>
      [] v.py \in {"int", "float"} -> <<ReprNumber(v.x)>>
      [] v.py = "list" ->
            <<"[">> \o Join([i \in 1..Len(v.items) |-> Repr(v.items[i])], <<", ">>)
            \o <<"]">>
      [] v.py = "dict" -> ReprDict(v.pairs)

\* str(v), also what an f-string puts for {v}
Str(v) == IF v.py = "str" THEN v.s ELSE Repr(v)

-----------------------------------------------------------------------------
(* JSON values and the outcomes of requests.get / raise_for_status / json   *)

\* A decoded JSON value.  type: "object", "array", "string", "number" (an
\* integer), "float" (a number with a fraction or an exponent), "boolean",
\* "null"; "invalid" is a body that does not decode.  Of an object, keys are
\* its member names, error its 'error' member and data its 'data' member; of
\* an array of strings, items; of a string, text.
NoMember == [type |-> "null", keys |-> {}, message |-> PyNone, code |-> PyNone]

Json(type, keys, items, text, error, data) ==
    [type |-> type, keys |-> keys, items |-> items, text |-> text,
     error |-> error, data |-> data]

JInvalid == Json("invalid", {}, << >>, << >>, NoMember, << >>)
JNull == Json("null", {}, << >>, << >>, NoMember, << >>)
JNumber == Json("number", {}, << >>, << >>, NoMember, << >>)
JFloat == Json("float", {}, << >>, << >>, NoMember, << >>)
JBoolean == Json("boolean", {}, << >>, << >>, NoMember, << >>)
JString(text) == Json("string", {}, << >>, text, NoMember, << >>)
JArray(items) == Json("array", {}, items, << >>, NoMember, << >>)
JObject(keys) == Json("object", keys, << >>, << >>, NoMember, << >>)
JError(error) == Json("object", {"error"}, << >>, << >>, error, << >>)
JData(data) == Json("object", {"data"}, << >>, << >>, NoMember, data)

\* the 'error' member when it is itself an object: its member names, and the
\* values of its 'message' and 'code' members (None for a member it has not)
ErrorObject(keys, message, code) ==
    [type |-> "object", keys |-> keys, message |-> message, code |-> code]

\* the 'error' member when it is a string, a number, an array or null
ErrorScalar(type) == [type |-> type, keys |-> {}, message |-> PyNone, code |-> PyNone]

\* The classes of requests.exceptions that derive from RequestException
\* directly, each of them without another base among the classes caught
RequestExceptions ==
    {"HTTPError", "ConnectionError", "Timeout", "InvalidJSONError", "URLRequired",
     "TooManyRedirects", "ChunkedEncodingError", "ContentDecodingError",
     "RetryError", "UnrewindableBodyError"}

\* The classes an exception is an instance of, among those the except
\* clauses name (requests.exceptions: every class derives from
\* RequestException; the JSONDecodeError of requests is also a ValueError).
\* A class that is not of requests.exceptions has itself only.
Bases(class) ==
    CASE class = "RequestException" -> {"RequestException"}
      [] class \in RequestExceptions -> {class, "RequestException"}
      [] class = "ReadTimeout" -> {"ReadTimeout", "Timeout", "RequestException"}
      [] class = "ConnectTimeout" ->
            {"ConnectTimeout", "ConnectionError", "Timeout", "RequestException"}
      [] class \in {"SSLError", "ProxyError"} ->
            {class, "ConnectionError", "RequestException"}
      [] class = "JSONDecodeError" ->
            {"JSONDecodeError", "InvalidJSONError", "RequestException", "ValueError"}
      [] class \in {"MissingSchema", "InvalidSchema", "InvalidURL", "InvalidHeader"} ->
            {class, "RequestException", "ValueError"}
      [] class = "InvalidProxyURL" ->
            {"InvalidProxyURL", "InvalidURL", "RequestException", "ValueError"}
      [] class = "StreamConsumedError" ->
            {"StreamConsumedError", "RequestException", "TypeError"}
      [] OTHER -> {class}

\* the first except clause, in order, that catches an exception of the class
\* (0: none does)
FirstClause(class, clauses) ==
    IF \E i \in 1..Len(clauses) : clauses[i] \in Bases(class)
    THEN CHOOSE i \in 1..Len(clauses) :
            /\ clauses[i] \in Bases(class)
            /\ \A j \in 1..(i - 1) : clauses[j] \notin Bases(class)
    ELSE 0

\* What requests.get(...), response.raise_for_status() and response.json()
\* come to: exc is "" when all three succeed and body is then the decoded
\* JSON; otherwise exc is the class raised, text its str(e), and for an
\* HTTPError body is what e.response.json() decodes to.
Outcome(exc, text, body) == [exc |-> exc, text |-> text, body |-> body]

\* the timeout given to requests.get (lines 91 and 693)
RequestTimeout == 30

\* `'error' in error_data` of lines 98 and 699
HasError(j) ==
    CASE j.type = "object" -> "error" \in j.keys
      [] j.type = "array" -> \E i \in 1..Len(j.items) : Text(j.items[i]) = "error"
      [] j.type = "string" -> Contains(j.text, <<"error">>)
      [] OTHER -> FALSE

\* error_data['error'].get('message', str(e)) of lines 99 and 700, as the
\* f-strings of lines 102 and 701 show it
ErrorMessage(err, text) == IF "message" \in err.keys THEN Str(err.message) ELSE text

\* error_data['error'].get('code', 'unknown') of line 100, as the f-string of
\* line 102 shows it: str() of the member, whatever its type
ErrorCode(err) == IF "code" \in err.keys THEN Str(err.code) ELSE <<"unknown">>

\* line 102
GatewayApiError(err, text) ==
    <<"Facebook API Error (Code ">> \o ErrorCode(err) \o <<"): ">>
        \o ErrorMessage(err, text)

\* line 701
PaginationApiError(err, text) == <<"Facebook API Error: ">> \o ErrorMessage(err, text)

\* type(x).__name__ of a decoded JSON value
PyType(type) ==
    CASE type = "null" -> "NoneType"
      [] type = "number" -> "int"
      [] type = "float" -> "float"
      [] type = "boolean" -> "bool"
      [] type = "string" -> "str"
      [] type = "array" -> "list"
      [] OTHER -> "dict"

\* What lines 97-100 and 698-700 raise on the way to the 'error' member of the
\* decoded body j, "" when they raise nothing: e.response.json() raises
\* ValueError on a body that does not decode; `'error' in j` raises TypeError
\* on a number, a boolean or null; j['error'] raises TypeError on a list or a str;
\* .get raises AttributeError on a member that is no object.
ErrorLookup(j) ==
    IF j.type = "invalid" THEN Raise("ValueError", <<"Expecting value">>)
    ELSE IF j.type \in {"null", "number", "float", "boolean"}
    THEN Raise("TypeError", <<"argument of type '", PyType(j.type), "' is not iterable">>)
    ELSE IF ~HasError(j) THEN Return(None)
    ELSE IF j.type = "string"
    THEN Raise("TypeError", <<"string indices must be integers, not 'str'">>)
    ELSE IF j.type = "array"
    THEN Raise("TypeError", <<"list indices must be integers or slices, not str">>)
    ELSE IF j.error.type # "object"
    THEN Raise("AttributeError",
               <<"'", PyType(j.error.type), "' object has no attribute 'get'">>)
    ELSE Return(None)

\* the exception classes the inner try swallows (lines 105 and 702)
Swallowed == {"ValueError", "KeyError"}

\* lines 94-107: the handler of an HTTPError e, str(e) = text, body j
GatewayHttpError(j, text) ==
    LET l == ErrorLookup(j)
    IN  IF l.raised
        THEN IF l.exc \in Swallowed THEN Raise("HTTPError", text) ELSE l
        ELSE IF HasError(j) THEN Raise("HTTPError", GatewayApiError(j.error, text))
        ELSE Raise("HTTPError", text)

\* lines 696-704: the same handler in fetch_pagination_url
PaginationHttpError(j, text) ==
    LET l == ErrorLookup(j)
    IN  IF l.raised
        THEN IF l.exc \in Swallowed THEN Raise("HTTPError", text) ELSE l
        ELSE IF HasError(j) THEN Raise("HTTPError", PaginationApiError(j.error, text))
        ELSE Raise("HTTPError", text)

\* lines 109 and 111
GatewayTimeoutMsg == <<"Request to Facebook API timed out after 30 seconds">>
GatewayNetworkMsg(text) == <<"Network error calling Facebook API: ">> \o text

\* lines 706 and 708
PaginationTimeoutMsg == <<"Request to pagination URL timed out after 30 seconds">>
PaginationNetworkMsg(text) == <<"Network error fetching pagination URL: ">> \o text

\* the except clauses with the generic one ahead of the timeout one
GatewayClauses_GenericFirst == <<"HTTPError", "RequestException", "Timeout">>

\* the except clauses of lines 94, 108, 110, in order
GatewayClauses == <<"HTTPError", "Timeout", "RequestException">>

\* the except clauses of lines 696, 705, 707, in order
PaginationClauses == <<"HTTPError", "Timeout", "RequestException">>

\* lines 90-111: _make_graph_api_call(url, params) when the HTTP layer
\* answers the request with outcome o
MakeGraphApiCall(o) ==
    IF o.exc = "" THEN Return(o.body)
    ELSE
      LET c == FirstClause(o.exc, GatewayClauses)
      IN  IF c = 0 THEN Raise(o.exc, o.text)
          ELSE IF GatewayClauses[c] = "HTTPError" THEN GatewayHttpError(o.body, o.text)
          ELSE IF GatewayClauses[c] = "Timeout"
          THEN Raise("RequestException", GatewayTimeoutMsg)
          ELSE Raise("RequestException", GatewayNetworkMsg(o.text))

\* lines 692-708: the body of fetch_pagination_url(url) when the HTTP layer
\* answers the request with outcome o
FetchPage(o) ==
    IF o.exc = "" THEN Return(o.body)
    ELSE
      LET c == FirstClause(o.exc, PaginationClauses)
      IN  IF c = 0 THEN Raise(o.exc, o.text)
          ELSE IF PaginationClauses[c] = "HTTPError"
          THEN PaginationHttpError(o.body, o.text)
          ELSE IF PaginationClauses[c] = "Timeout"
          THEN Raise("RequestException", PaginationTimeoutMsg)
          ELSE Raise("RequestException", PaginationNetworkMsg(o.text))

-----------------------------------------------------------------------------
(* Bounded outcomes of the HTTP layer *)

HttpTexts == {<<"400 Client Error: Bad Request for url">>,
              <<"500 Server Error: Internal Server Error for url">>}

\* messages and codes of an error object: the strs and ints the Graph API
\* sends, and members of another type
ApiMessages ==
    {PyStr(<<"Invalid token">>), PyStr(<<"(#17) User request limit reached">>), PyNone}

ApiCodes ==
    {PyNumber(Integer(190)), PyNumber(Integer(17)), PyStr(<<"190">>), PyBool(TRUE), PyNone}

ErrorObjects ==
    {ErrorObject({}, PyNone, PyNone)}
    \cup {ErrorObject({"message"}, m, PyNone) : m \in ApiMessages}
    \cup {ErrorObject({"code"}, PyNone, c) : c \in ApiCodes}
    \cup {ErrorObject({"message", "code"}, m, c) : m \in ApiMessages, c \in ApiCodes}

\* bodies of non-2xx responses
ErrorBodies ==
    {JInvalid, JNull, JNumber, JFloat, JBoolean,
     JString(<<"Bad Request">>), JString(<<"an ", "error", " occurred">>),
     JArray(<< <<"denied">> >>), JArray(<< <<"error">> >>),
     JObject({}), JObject({"message"}),
     JError(ErrorScalar("string")), JError(ErrorScalar("null"))}
    \cup {JError(e) : e \in ErrorObjects}

\* bodies of 2xx responses that carry no rows
PlainBodies == {JData(<< >>), JObject({"id", "name"}), JArray(<< >>)}

Failures ==
    {Outcome("HTTPError", t, b) : t \in HttpTexts, b \in ErrorBodies}
    \cup {Outcome(c, <<"Read timed out. (read timeout=30)">>, JInvalid) :
            c \in {"ReadTimeout", "ConnectTimeout"}}
    \cup {Outcome("ConnectionError", t, JInvalid) :
            t \in {<<"Connection refused">>, <<"Name or service not known">>}}
    \cup {Outcome("SSLError", <<"certificate verify failed">>, JInvalid),
          Outcome("TooManyRedirects", <<"Exceeded 30 redirects.">>, JInvalid)}
    \cup {Outcome("JSONDecodeError", <<"Expecting value: line 1 column 1 (char 0)">>,
                  JInvalid)}

Outcomes == {Outcome("", << >>, b) : b \in PlainBodies} \cup Failures

FB_GRAPH_URL == <<"https://graph.facebook.com/", "v22.0">>

\* an outgoing requests.get(url, params=params, timeout=timeout)
Request(url, params, timeout) == [url |-> url, params |-> params, timeout |-> timeout]

\* a params dict that holds no entry (requests.get(url) of line 693)
NoParams == [k \in {} |-> << >>]

PageUrls == {FB_GRAPH_URL \o <<"/act_1/ads?after=abc&access_token=A">>,
             FB_GRAPH_URL \o <<"/act_1/campaigns?after=xyz">>}

-----------------------------------------------------------------------------
(* The gateway and the pagination fetch applied to every outcome:           *)
(* specification SpecGateway.                                               *)

InitGateway ==
    /\ environ = TokA
    /\ argv = <<Prog>>
    /\ FB_ACCESS_TOKEN = None
    /\ call = NoCall
    /\ sent = << >>
    /\ resolved = None
    /\ NoThreads
    /\ Loaded

\* _make_graph_api_call(url, params), lines 90-111
make_graph_api_call ==
    \E u \in PageUrls, o \in Outcomes :
        /\ sent' = <<Request(u, [access_token |-> TokA], RequestTimeout)>>
        /\ call' = Call("_make_graph_api_call", <<u>>, <<o>>, MakeGraphApiCall(o),
                        FALSE, FALSE)
        /\ UNCHANGED <<environ, argv, FB_ACCESS_TOKEN, resolved, pc, seen, writes, mcp, main>>

\* a call that resolves no credential
NoResolution == [out |-> Pending, readEnv |-> FALSE, readArgv |-> FALSE]

\* fetch_pagination_url(url), lines 680-708: no credential is resolved and
\* the URL is requested as given; the answer is drawn from O
FetchPaginationUrl(O) ==
    \E u \in PageUrls, o \in O :
        /\ sent' = <<Request(u, NoParams, RequestTimeout)>>
        /\ call' = ToolCall("fetch_pagination_url", [url |-> u], <<o>>, FetchPage(o),
                            NoResolution)
        /\ UNCHANGED <<environ, argv, FB_ACCESS_TOKEN, resolved, pc, seen, writes, mcp, main>>

fetch_any_page == FetchPaginationUrl(Outcomes)

NextGateway == make_graph_api_call \/ fetch_any_page

SpecGateway == InitGateway /\ [][NextGateway]_vars

\* the outcome the last call's request met
Met == call.responses[1]

\* the body decodes to a JSON object whose 'error' member is an object
HasErrorObject(j) == j.type = "object" /\ "error" \in j.keys /\ j.error.type = "object"

\* C5 (as claimed): a gateway request that meets a non-2xx response raises
\* "Facebook API Error (Code {code}): {message}" from the body's own code and
\* message when the body decodes to JSON with an error object, and raises the
\* original HTTP error unmodified when the body does not decode or has no
\* error object.
C5_ApiErrorMessage ==
    (call.op = "_make_graph_api_call" /\ Met.exc = "HTTPError") =>
        IF HasErrorObject(Met.body)
        THEN {"message", "code"} \subseteq Met.body.error.keys =>
                call.out = Raise("HTTPError",
                                 <<"Facebook API Error (Code ">>
                                    \o Str(Met.body.error.code) \o <<"): ">>
                                    \o Str(Met.body.error.message))
        ELSE call.out = Raise("HTTPError", Met.text)

\* the outcome is a failure below the HTTP status: no response was read
IsTimeout(o) == o.exc \in {"ReadTimeout", "ConnectTimeout"}
IsTransportFailure(o) == o.exc \notin {"", "HTTPError"} /\ ~IsTimeout(o)

\* C7: a gateway request that times out raises the fixed message "Request to
\* Facebook API timed out after 30 seconds" whatever the transport said, never
\* the "Network error calling Facebook API: ..." wrapping; every other failure
\* below the HTTP status raises that wrapping with the original message.
C7_TimeoutMessage ==
    call.op = "_make_graph_api_call" =>
        /\ IsTimeout(Met) =>
              /\ call.out = Raise("RequestException",
                        <<"Request to Facebook API timed out after 30 seconds">>)
              /\ Head(call.out.msg) # "Network error calling Facebook API: "
        /\ IsTransportFailure(Met) =>
              call.out = Raise("RequestException",
                        <<"Network error calling Facebook API: ">> \o Met.text)

\* C7 witness: a gateway request timed out while connecting, and its transport
\* message is not what was raised.
C7_Witness ==
    /\ call.op = "_make_graph_api_call"
    /\ Met.exc = "ConnectTimeout"
    /\ Met.text # << >>
    /\ call.out.raised
    /\ call.out.msg = GatewayTimeoutMsg

\* C6: fetch_pagination_url sends its request with the gateway's timeout and,
\* for every outcome the request meets (success, non-2xx with a structured
\* error body, non-2xx without one, timeout, other network failure), produces
\* the same class of result and the same error message as
\* _make_graph_api_call does for that outcome.
C6_SameAsGateway ==
    call.op = "fetch_pagination_url" =>
        /\ sent[1].timeout = RequestTimeout
        /\ call.out = MakeGraphApiCall(Met)

-----------------------------------------------------------------------------
(* Tool arguments and request parameters *)

\* an Optional[List] or Optional[Dict] argument: None, or its items in order
\* (a dict is the sequence of its <<key, value>> pairs)
NoneList == [none |-> TRUE, items |-> << >>]
List(items) == [none |-> FALSE, items |-> items]

\* `not x` for such an argument: None, [] and {} are false
FalsyList(x) == x.none \/ x.items = << >>

\* json.dumps([{'field': 'spend', 'operator': 'GREATER_THAN', 'value': v}])
\* of lines 546-550 and 787-791, v an int, a float or None
SpendFilter(v) ==
    DumpsList(<<PyDict(<< << <<"field">>, PyStr(<<"spend">>) >>,
                          << <<"operator">>, PyStr(<<"GREATER_THAN">>) >>,
                          << <<"value">>, PyNumber(v) >> >>)>>)

\* a dict of one entry, and the union of two dicts (the left one wins)
Entry(k, v) == k :> v
Merge(d1, d2) == d1 @@ d2

\* fields joined with commas when given, the tool's default otherwise
\* (lines 153-156 and alike)
FieldsOrDefault(fields, default) ==
    Entry("fields", IF ~FalsyList(fields) THEN Join(fields.items, <<",">>) ELSE default)

\* fields joined with commas when given, no entry otherwise (lines 220-221
\* and alike)
FieldsIfGiven(fields) ==
    IF ~FalsyList(fields) THEN Entry("fields", Join(fields.items, <<",">>)) ELSE NoParams

\* lines 379-382, 553-556 and 794-797: if time_range: ... elif date_preset: ...
DateParams(date_preset, time_range) ==
    IF ~FalsyList(time_range) THEN Entry("time_range", DumpsDict(time_range.items))
    ELSE IF ~Falsy(date_preset) THEN Entry("date_preset", date_preset)
    ELSE NoParams

\* lines 414-415 and 447-448: if date_preset: ...
PresetParams(date_preset) ==
    IF ~Falsy(date_preset) THEN Entry("date_preset", date_preset) ELSE NoParams

Url(path) == FB_GRAPH_URL \o <<"/">> \o path

\* The request of each resource tool: op is the tool, a its arguments, tok the
\* credential its first line resolved.
ToolUrl(op, a) ==
    CASE op = "list_ad_accounts" -> Url(<<"me/adaccounts">>)                 \* 128
      [] op = "get_details_of_ad_account" -> Url(a.act_id)                   \* 150
      [] op = "get_campaigns_by_adaccount" -> Url(a.act_id \o <<"/campaigns">>) \* 186
      [] op = "get_campaign_by_id" -> Url(a.campaign_id)                     \* 217
      [] op = "get_adsets_by_campaign" -> Url(a.campaign_id \o <<"/adsets">>) \* 248
      [] op = "get_adset_by_id" -> Url(a.adset_id)                           \* 276
      [] op = "get_ads_by_adset" -> Url(a.adset_id \o <<"/ads">>)            \* 307
      [] op = "get_ad_by_id" -> Url(a.ad_id)                                 \* 335
      [] op = "get_campaign_insights" -> Url(a.campaign_id \o <<"/insights">>) \* 370
      [] op = "get_adset_insights" -> Url(a.adset_id \o <<"/insights">>)     \* 405
      [] op = "get_ad_insights" -> Url(a.ad_id \o <<"/insights">>)           \* 438

\* the entries each resource tool adds to its params beside the credential
ToolOwnParams(op, a) ==
    CASE op = "list_ad_accounts" ->                                     \* 129-132
            Entry("fields", <<"name,account_id,account_status,currency">>)
      [] op = "get_details_of_ad_account" ->                            \* 151-156
            FieldsOrDefault(a.fields,
                <<"name,account_status,amount_spent,balance,currency">>)
      [] op = "get_campaigns_by_adaccount" ->                           \* 188-199
            Merge(Entry("limit", a.limit),
            Merge(FieldsOrDefault(a.fields,
                <<"name,objective,status,effective_status,daily_budget,lifetime_budget">>),
                  IF ~FalsyList(a.filtering)
                  THEN Entry("filtering", DumpsList(a.filtering.items))
                  ELSE NoParams))
      [] op = "get_campaign_by_id" -> FieldsIfGiven(a.fields)           \* 218-221
      [] op = "get_adsets_by_campaign" ->                               \* 250-258
            Merge(Entry("limit", a.limit),
                  FieldsOrDefault(a.fields,
                    <<"name,effective_status,daily_budget,lifetime_budget,targeting">>))
      [] op = "get_adset_by_id" -> FieldsIfGiven(a.fields)              \* 277-280
      [] op = "get_ads_by_adset" ->                                     \* 309-317
            Merge(Entry("limit", a.limit),
                  FieldsOrDefault(a.fields, <<"name,effective_status,creative">>))
      [] op = "get_ad_by_id" -> FieldsIfGiven(a.fields)                 \* 336-339
      [] op = "get_campaign_insights" ->                                \* 372-382
            Merge(FieldsOrDefault(a.fields,
                    <<"impressions,clicks,spend,cpc,cpm,ctr,reach">>),
                  DateParams(a.date_preset, a.time_range))
      [] op = "get_adset_insights" ->                                   \* 407-415
            Merge(FieldsOrDefault(a.fields, <<"impressions,clicks,spend,cpc,ctr">>),
                  PresetParams(a.date_preset))
      [] op = "get_ad_insights" ->                                      \* 440-448
            Merge(FieldsOrDefault(a.fields, <<"impressions,clicks,spend,cpc,ctr">>),
                  PresetParams(a.date_preset))

\* params built without the credential
ToolParams_NoToken(op, a, tok) == ToolOwnParams(op, a)

\* params = {'access_token': access_token, ...} of every resource tool
ToolParams(op, a, tok) == Merge(Entry("access_token", tok), ToolOwnParams(op, a))

-----------------------------------------------------------------------------
(* Bounded arguments of the tools *)

FieldArgs == {NoneList, List(<< <<"name">>, <<"status">> >>)}

FilterArgs ==
    {NoneList,
     List(<<PyDict(<< << <<"field">>, PyStr(<<"effective_status">>) >>,
                      << <<"operator">>, PyStr(<<"IN">>) >>,
                      << <<"value">>, PyList(<<PyStr(<<"ACTIVE">>)>>) >> >>)>>)}

PresetArgs == {None, << >>, <<"last_7d">>}

RangeArgs ==
    {NoneList, List(<< >>),
     List(<< << <<"since">>, PyStr(<<"2024-01-01">>) >>,
             << <<"until">>, PyStr(<<"2024-01-31">>) >> >>)}

\* a range whose texts json.dumps escapes
QuotedRange ==
    List(<< << <<"since">>, PyStr(<<"say \"x\"">>) >>,
            << <<"a\\b">>, PyStr(<<"\té">>) >> >>)

ActId == <<"act_1">>
CampaignId == <<"c1">>
AdsetId == <<"s1">>
AdId == <<"a1">>

ToolArgs(op) ==
    CASE op = "list_ad_accounts" -> {[none |-> TRUE]}
      [] op = "get_details_of_ad_account" ->
            {[act_id |-> ActId, fields |-> f] : f \in FieldArgs}
      [] op = "get_campaigns_by_adaccount" ->
            {[act_id |-> ActId, fields |-> f, limit |-> 25, filtering |-> g] :
                f \in FieldArgs, g \in FilterArgs}
      [] op \in {"get_campaign_by_id"} ->
            {[campaign_id |-> CampaignId, fields |-> f] : f \in FieldArgs}
      [] op = "get_adsets_by_campaign" ->
            {[campaign_id |-> CampaignId, fields |-> f, limit |-> 25] : f \in FieldArgs}
      [] op = "get_adset_by_id" ->
            {[adset_id |-> AdsetId, fields |-> f] : f \in FieldArgs}
      [] op = "get_ads_by_adset" ->
            {[adset_id |-> AdsetId, fields |-> f, limit |-> 25] : f \in FieldArgs}
      [] op = "get_ad_by_id" -> {[ad_id |-> AdId, fields |-> f] : f \in FieldArgs}
      [] op = "get_campaign_insights" ->
            {[campaign_id |-> CampaignId, fields |-> f, date_preset |-> d,
              time_range |-> t] :
                f \in FieldArgs, d \in PresetArgs, t \in RangeArgs \cup {QuotedRange}}
      [] op = "get_adset_insights" ->
            {[adset_id |-> AdsetId, fields |-> f, date_preset |-> d] :
                f \in FieldArgs, d \in PresetArgs}
      [] op = "get_ad_insights" ->
            {[ad_id |-> AdId, fields |-> f, date_preset |-> d] :
                f \in FieldArgs, d \in PresetArgs}

\* the outcomes the resource tools meet
ApiFailure ==
    Outcome("HTTPError", <<"400 Client Error: Bad Request for url">>,
            JError(ErrorObject({"message", "code"}, PyStr(<<"Invalid token">>),
                               PyNumber(Integer(190)))))

TimedOut == Outcome("ReadTimeout", <<"Read timed out. (read timeout=30)">>, JInvalid)

ToolOutcomes == {Outcome("", << >>, JObject({"id", "name"})), ApiFailure, TimedOut}

-----------------------------------------------------------------------------
(* The tools called in sequence by the host: specification Spec.            *)

\* the credential sources of the process
Sources ==
    {<<None, <<Prog>> >>, <<<< >>, <<Prog>> >>, <<TokA, <<Prog>> >>,
     <<None, <<Prog, FlagText, TokC>> >>}

Init ==
    /\ \E s \in Sources : environ = s[1] /\ argv = s[2]
    /\ FB_ACCESS_TOKEN = None
    /\ call = NoCall
    /\ sent = << >>
    /\ resolved = None
    /\ NoThreads
    /\ Loaded

\* the request req of a resource tool goes through the gateway, which meets
\* one of the outcomes: its result or error is the tool's
Answered(op, a, r, req) ==
    \E o \in ToolOutcomes :
        /\ sent' = <<req>>
        /\ call' = ToolCall(op, a, <<o>>, MakeGraphApiCall(o), r)

\* A resource tool: the credential is resolved first (an error leaves before
\* any request), then the one request goes through the gateway and its result
\* or error is the tool's.
Invoke(op) ==
    \E a \in ToolArgs(op) :
        LET r == ResolveToken(FB_ACCESS_TOKEN, environ, argv)
        IN  /\ FB_ACCESS_TOKEN' = r.global
            /\ resolved' = Remember(r.out)
            /\ IF r.out.raised
               THEN /\ sent' = << >>
                    /\ call' = ToolCall(op, a, << >>, r.out, r)
               ELSE Answered(op, a, r, Request(ToolUrl(op, a),
                                               ToolParams(op, a, r.out.value),
                                               RequestTimeout))
            /\ UNCHANGED <<environ, argv, pc, seen, writes, mcp, main>>

list_ad_accounts == Invoke("list_ad_accounts")
get_details_of_ad_account == Invoke("get_details_of_ad_account")
get_campaigns_by_adaccount == Invoke("get_campaigns_by_adaccount")
get_campaign_by_id == Invoke("get_campaign_by_id")
get_adsets_by_campaign == Invoke("get_adsets_by_campaign")
get_adset_by_id == Invoke("get_adset_by_id")
get_ads_by_adset == Invoke("get_ads_by_adset")
get_ad_by_id == Invoke("get_ad_by_id")
get_campaign_insights == Invoke("get_campaign_insights")
get_adset_insights == Invoke("get_adset_insights")
get_ad_insights == Invoke("get_ad_insights")
fetch_pagination_url == FetchPaginationUrl(ToolOutcomes)

-----------------------------------------------------------------------------
(* Python dicts and the rows of the reports *)

\* d.get(k) and d.get(k, default) of a dict held as a function of its keys
Get(d, k, default) == IF k \in DOMAIN d THEN d[k] ELSE default

\* Two values are the same key of a dict when their hash() and == agree: a
\* bool, an int and a float of the same number (True, 1 and 1.0; 0, 0.0 and
\* -0.0), two strs of the same text, None and None.  NaN is the one object
\* json decodes every NaN to, and a key is found by identity before ==.
SameKey(a, b) ==
    LET Numeric(v) == v.py \in {"bool", "int", "float"}
        NumberOf(v) == IF v.py = "bool" THEN Integer(IF v.b THEN 1 ELSE 0) ELSE v.x
        Equal(x, y) ==
            IF x.kind # y.kind THEN FALSE
            ELSE IF x.kind = "float" THEN x.m = y.m /\ x.e = y.e /\ (x.m = 0 \/ x.neg = y.neg)
            ELSE x.neg = y.neg
        Value(x) == IF x.kind \in {"int", "float"} THEN Float(x.neg, x.m, x.e) ELSE x
    IN  CASE Numeric(a) /\ Numeric(b) -> Equal(Value(NumberOf(a)), Value(NumberOf(b)))
          [] a.py = "str" /\ b.py = "str" -> Text(a.s) = Text(b.s)
          [] OTHER -> a.py = "NoneType" /\ b.py = "NoneType"

\* the value a dict comprehension {x[k]: x for x in list} holds for a key:
\* that of the last item with the key
LastWith(list, k, v) ==
    list[CHOOSE i \in 1..Len(list) :
            /\ SameKey(list[i][k], v)
            /\ \A j \in (i + 1)..Len(list) : ~SameKey(list[j][k], v)]

\* the keys of that dict in insertion order: a key stays the value that was
\* inserted first, also when a later item with the same key replaces the item
RECURSIVE KeyOrder(_, _)
KeyOrder(list, k) ==
    IF list = << >> THEN << >>
    ELSE LET init == SubSeq(list, 1, Len(list) - 1)
             last == list[Len(list)][k]
         IN  IF \E i \in 1..Len(init) : SameKey(init[i][k], last)
             THEN KeyOrder(init, k)
             ELSE Append(KeyOrder(init, k), last)

\* response.get('data', []) of lines 537, 561 and 801: AttributeError on a
\* JSON value that is no object
DataOf(j) ==
    IF j.type # "object"
    THEN Raise("AttributeError", <<"'", PyType(j.type), "' object has no attribute 'get'">>)
    ELSE Return(IF "data" \in j.keys THEN j.data ELSE << >>)

\* What the dict comprehension {x[k]: x for x in list} of lines 537 and
\* 559-562 raises, at the first item that makes it raise: KeyError on an item
\* without the key, TypeError on a key that is a list or a dict (no hash)
KeyFault(list, k) ==
    LET faulty == {i \in 1..Len(list) :
                      k \notin DOMAIN list[i] \/ list[i][k].py \in {"list", "dict"}}
        first == CHOOSE i \in faulty : \A j \in faulty : i <= j
    IN  IF faulty = {} THEN Return(None)
        ELSE IF k \notin DOMAIN list[first] THEN Raise("KeyError", <<"'" \o k \o "'">>)
        ELSE Raise("TypeError", <<"unhashable type: '", list[first][k].py, "'">>)

\* lines 506-516 and 519-527, joined with commas
AdFields ==
    <<"id,name,status,effective_status,campaign_id,campaign{id,name},adset_id,adset{id,name},creative{id,asset_feed_spec,image_url,video_id,thumbnail_url,object_story_spec}">>

InsightFields ==
    <<"reach,impressions,frequency,spend,clicks,unique_clicks,ctr,unique_ctr,cpc,cpm,video_play_actions,video_thruplay_watched_actions,video_p25_watched_actions,video_p50_watched_actions,video_p75_watched_actions,video_p100_watched_actions,video_continuous_2_sec_watched_actions,actions,action_values,cost_per_action_type">>

\* lines 530-535: the ads request
AdsRequest(a, tok) ==
    Request(IF ~Falsy(a.campaign_id) THEN Url(a.campaign_id \o <<"/ads">>)
            ELSE Url(a.act_id \o <<"/ads">>),
            Merge(Entry("access_token", tok),
            Merge(Entry("fields", AdFields), Entry("limit", a.limit))),
            RequestTimeout)

\* lines 540-556: the insights request
InsightsRequest(a, tok) ==
    Request(Url(a.act_id \o <<"/insights">>),
            Merge(Entry("access_token", tok),
            Merge(Entry("level", <<"ad">>),
            Merge(Entry("fields", InsightFields),
            Merge(Entry("limit", a.limit),
            Merge(Entry("filtering", SpendFilter(a.min_spend)),
                  DateParams(a.date_preset, a.time_range)))))),
            RequestTimeout)

\* not v of a value: None, False, a zero, '', [] and {} are false
FalsyValue(v) ==
    CASE v.py = "NoneType" -> TRUE
      [] v.py = "bool" -> ~v.b
      [] v.py = "str" -> Text(v.s) = ""
      [] v.py \in {"int", "float"} -> FalsyNumber(v.x)
      [] v.py = "list" -> v.items = << >>
      [] v.py = "dict" -> v.pairs = << >>

\* k in d of a dict given as its pairs, k a text
HasKey(pairs, k) == \E i \in 1..Len(pairs) : Text(pairs[i][1]) = k

\* d.get(k, default) of a dict given as its pairs
Member(pairs, k, default) ==
    IF HasKey(pairs, k)
    THEN pairs[CHOOSE i \in 1..Len(pairs) :
                  /\ Text(pairs[i][1]) = k
                  /\ \A j \in (i + 1)..Len(pairs) : Text(pairs[j][1]) # k][2]
    ELSE default

\* v.get(k, default) of a value: AttributeError on one that is no dict
GetOf(v, k, default) ==
    IF v.py = "dict" THEN Return(Member(v.pairs, k, default))
    ELSE Raise("AttributeError", <<"'", v.py, "' object has no attribute 'get'">>)

\* What a for loop takes of a value: the items of a list, the characters of a
\* str, the keys of a dict; TypeError on any other value.
Items(v) ==
    CASE v.py = "list" -> v.items
      [] v.py = "str" -> [i \in 1..Len(Text(v.s)) |-> PyStr(<<SubSeq(Text(v.s), i, i)>>)]
      [] v.py = "dict" -> [i \in 1..Len(v.pairs) |-> PyStr(v.pairs[i][1])]

\* key in t, key a str: a run of characters of a str, an item of a list, a
\* key of a dict; TypeError on any other value
In(key, t) ==
    CASE t.py = "str" -> Contains(t.s, key)
      [] t.py = "list" ->
            \E i \in 1..Len(t.items) :
                t.items[i].py = "str" /\ Text(t.items[i].s) = Text(key)
      [] t.py = "dict" -> HasKey(t.pairs, Text(key))

\* a or b of Python, given what the operands come to: a when it raised or is
\* true, b (evaluated only then) otherwise
Or(a, b) == IF a.raised \/ ~FalsyValue(a.value) THEN a ELSE b

\* Lines 585-587, 593-595, 813-815 and 821-823: the loop over the entries
\* from entry i on.  It comes to the position of the first entry whose
\* action_type holds the key (0: none), or to the error an entry before it
\* raises: AttributeError when it is no dict, TypeError when its action_type
\* is None, a bool or a number.
RECURSIVE ScanFrom(_, _, _)
ScanFrom(entries, key, i) ==
    IF i > Len(entries) THEN Return(0)
    ELSE IF entries[i].py # "dict" THEN GetOf(entries[i], "action_type", PyStr(<< >>))
    ELSE IF Member(entries[i].pairs, "action_type", PyStr(<< >>)).py
                \notin {"str", "list", "dict"}
    THEN Raise("TypeError",
               <<"argument of type '",
                 Member(entries[i].pairs, "action_type", PyStr(<< >>)).py,
                 "' is not iterable">>)
    ELSE IF In(key, Member(entries[i].pairs, "action_type", PyStr(<< >>))) THEN Return(i)
    ELSE ScanFrom(entries, key, i + 1)

\* The scan shared by the action lookups (lines 583-587, 591-595, 810-814,
\* 819-823): 0 for a list that is false, TypeError for a true value that a
\* for loop cannot take
FirstAction(actions, key) ==
    IF FalsyValue(actions) THEN Return(0)
    ELSE IF actions.py \notin {"str", "list", "dict"}
    THEN Raise("TypeError", <<"'", actions.py, "' object is not iterable">>)
    ELSE ScanFrom(Items(actions), key, 1)

\* action.get('value') of the entry the scan f found, None when it found none
ValueAt(actions_list, f) ==
    IF f.raised THEN f
    ELSE IF f.value = 0 THEN Return(PyNone)
    ELSE Return(Member(Items(actions_list)[f.value].pairs, "value", PyNone))

\* lines 582-588: get_action_value(actions_list, action_type)
GetActionValue(actions_list, action_type) ==
    ValueAt(actions_list, FirstAction(actions_list, action_type))

\* lines 590-596: get_cost_per_action(cost_per_actions, action_type)
GetCostPerAction(cost_per_actions, action_type) ==
    ValueAt(cost_per_actions, FirstAction(cost_per_actions, action_type))

\* the action types of lines 603-611 and 650-652, a text being the sequence
\* of its parts
Pixel(k) == <<"offsite_conversion", ".fb_pixel_", k>>
PixelPurchase == Pixel("purchase")
PurchaseKeys ==
    << <<"purchase">>, PixelPurchase, <<"offsite_conversion">>, <<"onsite_conversion">> >>

\* the four lookups chained from the last key to the first
Purchases_LastFirst(actions) ==
    Or(Or(Or(GetActionValue(actions, PurchaseKeys[4]),
             GetActionValue(actions, PurchaseKeys[3])),
          GetActionValue(actions, PurchaseKeys[2])),
       GetActionValue(actions, PurchaseKeys[1]))

\* lines 603-606: purchases
Purchases(actions) ==
    Or(Or(Or(GetActionValue(actions, PurchaseKeys[1]),
             GetActionValue(actions, PurchaseKeys[2])),
          GetActionValue(actions, PurchaseKeys[3])),
       GetActionValue(actions, PurchaseKeys[4]))

\* lines 608-611: cost_per_purchase
CostPerPurchase(cost_per_actions) ==
    Or(Or(Or(GetCostPerAction(cost_per_actions, PurchaseKeys[1]),
             GetCostPerAction(cost_per_actions, PurchaseKeys[2])),
          GetCostPerAction(cost_per_actions, PurchaseKeys[3])),
       GetCostPerAction(cost_per_actions, PurchaseKeys[4]))

\* lines 650-652: get_action_value(actions, k) or get_action_value(actions,
\* 'offsite_conversion.fb_pixel_' + k)
OrPixel(actions, k) == Or(GetActionValue(actions, <<k>>), GetActionValue(actions, Pixel(k)))

\* lines 642-648: get_action_value(insights_data.get(k, []), 'video_view')
Video(insights_data, k) ==
    GetActionValue(Get(insights_data, k, PyList(<< >>)), <<"video_view">>)

\* sub.get(k) if sub else otherwise, sub what ad.get(object) gives (lines
\* 617-620): AttributeError on a true value that is no dict
NestedMember(sub, k, otherwise) ==
    IF FalsyValue(sub) THEN Return(otherwise) ELSE GetOf(sub, k, PyNone)

\* the flat id field looked at before the nested object
NestedId_FlatFirst(ad, object, flat) ==
    IF flat \in DOMAIN ad THEN Return(ad[flat])
    ELSE NestedMember(Get(ad, object, PyNone), "id", PyNone)

\* lines 617 and 619: ad.get(object, {}).get('id') if ad.get(object) else
\* ad.get(flat)
NestedId(ad, object, flat) ==
    NestedMember(Get(ad, object, PyNone), "id", Get(ad, flat, PyNone))

\* lines 618 and 620: ad.get(object, {}).get('name') if ad.get(object) else
\* None
NestedName(ad, object) == NestedMember(Get(ad, object, PyNone), "name", PyNone)

\* lines 579-580: asset_url when it is false so far and the creative has a
\* true object_story_spec, video_data what .get('video_data', {}) gives of it
VideoAsset(asset_url, video_data) ==
    IF FalsyValue(video_data) THEN Return(asset_url)
    ELSE IF video_data.py # "dict" THEN GetOf(video_data, "video_id", PyStr(<<"N/A">>))
    ELSE Return(PyStr(<<"Video ID: ">>
                      \o Str(Member(video_data.pairs, "video_id", PyStr(<<"N/A">>)))))

\* lines 577-580: asset_url after line 576 gave it, creative a dict
StoryAsset(asset_url, object_story_spec) ==
    IF ~FalsyValue(asset_url) \/ FalsyValue(object_story_spec) THEN Return(asset_url)
    ELSE IF object_story_spec.py # "dict"
    THEN GetOf(object_story_spec, "video_data", PyDict(<< >>))
    ELSE VideoAsset(asset_url, Member(object_story_spec.pairs, "video_data", PyDict(<< >>)))

\* the image URL preferred to the thumbnail URL
UrlOf_ImageFirst(creative) ==
    Or(Return(Member(creative.pairs, "image_url", PyNone)),
       Return(Member(creative.pairs, "thumbnail_url", PyNone))).value

\* line 576: creative.get('thumbnail_url') or creative.get('image_url')
UrlOf(creative) ==
    Or(Return(Member(creative.pairs, "thumbnail_url", PyNone)),
       Return(Member(creative.pairs, "image_url", PyNone))).value

\* lines 573-580: asset_url, creative what ad.get('creative', {}) gives
CreativeAsset(creative) ==
    IF FalsyValue(creative) THEN Return(PyNone)
    ELSE IF creative.py # "dict" THEN GetOf(creative, "thumbnail_url", PyNone)
    ELSE StoryAsset(UrlOf(creative), Member(creative.pairs, "object_story_spec", PyNone))

\* lines 572-580: asset_url
AssetUrl(ad) == CreativeAsset(Get(ad, "creative", PyDict(<< >>)))

\* line 614: creative.get('id') if creative else None, after lines 573-580
CreativeId(creative) ==
    IF FalsyValue(creative) \/ creative.py # "dict" THEN PyNone
    ELSE Member(creative.pairs, "id", PyNone)

\* lines 572-611 and 617-659: the fields of a row that are computed, each
\* with what it comes to
Computed(ad, insights_data, actions, cost_per_actions) ==
    [asset_url |-> AssetUrl(ad),
     purchases |-> Purchases(actions),
     cost_per_purchase |-> CostPerPurchase(cost_per_actions),
     campaign_id |-> NestedId(ad, "campaign", "campaign_id"),
     campaign_name |-> NestedName(ad, "campaign"),
     ad_set_id |-> NestedId(ad, "adset", "adset_id"),
     ad_set_name |-> NestedName(ad, "adset"),
     video_3_sec_plays |-> Video(insights_data, "video_continuous_2_sec_watched_actions"),
     video_plays_25_percent |-> Video(insights_data, "video_p25_watched_actions"),
     video_plays_50_percent |-> Video(insights_data, "video_p50_watched_actions"),
     video_plays_75_percent |-> Video(insights_data, "video_p75_watched_actions"),
     video_plays_100_percent |-> Video(insights_data, "video_p100_watched_actions"),
     video_plays |-> Video(insights_data, "video_play_actions"),
     thru_plays |-> Video(insights_data, "video_thruplay_watched_actions"),
     adds_to_cart |-> OrPixel(actions, "add_to_cart"),
     content_views |-> OrPixel(actions, "view_content"),
     checkouts_initiated |-> OrPixel(actions, "initiate_checkout"),
     landing_page_views |-> GetActionValue(actions, <<"landing_page_view">>),
     link_clicks |-> GetActionValue(actions, <<"link_click">>),
     outbound_clicks |-> GetActionValue(actions, <<"outbound_click">>),
     post_reactions |-> GetActionValue(actions, <<"post_reaction">>),
     post_comments |-> GetActionValue(actions, <<"comment">>),
     post_saves |-> GetActionValue(actions, <<"post_save">>),
     post_shares |-> GetActionValue(actions, <<"post_share">>),
     post_engagement |-> GetActionValue(actions, <<"post_engagement">>),
     page_likes |-> GetActionValue(actions, <<"like">>)]

\* the order in which lines 572-659 evaluate them
RowOrder ==
    <<"asset_url", "purchases", "cost_per_purchase", "campaign_id", "campaign_name",
      "ad_set_id", "ad_set_name", "video_3_sec_plays", "video_plays_25_percent",
      "video_plays_50_percent", "video_plays_75_percent", "video_plays_100_percent",
      "video_plays", "thru_plays", "adds_to_cart", "content_views",
      "checkouts_initiated", "landing_page_views", "link_clicks", "outbound_clicks",
      "post_reactions", "post_comments", "post_saves", "post_shares",
      "post_engagement", "page_likes">>

\* lines 614-660: the fields of a row that are members copied as they are
Copied(ad_id, ad, insights_data) ==
    [ad_creative_id |-> CreativeId(Get(ad, "creative", PyDict(<< >>))),
     ad_id |-> ad_id,
     ad_name |-> Get(ad, "name", PyNone),
     ad_status |-> Get(ad, "status", PyNone),
     delivery |-> Get(ad, "effective_status", PyNone),
     reach |-> Get(insights_data, "reach", PyNone),
     impressions |-> Get(insights_data, "impressions", PyNone),
     frequency |-> Get(insights_data, "frequency", PyNone),
     clicks_all |-> Get(insights_data, "clicks", PyNone),
     unique_clicks_all |-> Get(insights_data, "unique_clicks", PyNone),
     ctr_all |-> Get(insights_data, "ctr", PyNone),
     unique_ctr_all |-> Get(insights_data, "unique_ctr", PyNone),
     cpc_all |-> Get(insights_data, "cpc", PyNone),
     cpm |-> Get(insights_data, "cpm", PyNone),
     amount_spent |-> Get(insights_data, "spend", PyNone)]

\* the row of the fields, or the first error, in the order of evaluation,
\* that one of the computed fields raised
Assembled(copied, computed) ==
    IF \E k \in 1..Len(RowOrder) : computed[RowOrder[k]].raised
    THEN computed[RowOrder[CHOOSE k \in 1..Len(RowOrder) :
                      /\ computed[RowOrder[k]].raised
                      /\ \A j \in 1..(k - 1) : ~computed[RowOrder[j]].raised]]
    ELSE Return(copied @@ [f \in DOMAIN computed |-> computed[f].value])

\* lines 572-660: the row of an ad and its insight record
Row(ad_id, ad, insights_data) ==
    Assembled(Copied(ad_id, ad, insights_data),
          Computed(ad, insights_data, Get(insights_data, "actions", PyList(<< >>)),
                   Get(insights_data, "cost_per_action_type", PyList(<< >>))))

\* the ad ids that get a row when ads without insights are not skipped
Reported_NoSkip(ids, insights) == ids

\* lines 565-570: the ad ids, in order, that have a non-empty insight record
\* (insights_by_ad_id.get(ad_id, {}) is {} exactly when no record has the id)
Reported(ids, insights) ==
    LET HasInsights(id) == \E i \in 1..Len(insights) : SameKey(insights[i]["ad_id"], id)
    IN  SelectSeq(ids, HasInsights)

\* lines 564-661: the loop over the ads, rows what the ads reported come to:
\* the rows, or the first error one of them raised
RowsOf(rows) ==
    IF \E n \in 1..Len(rows) : rows[n].raised
    THEN rows[CHOOSE n \in 1..Len(rows) :
                  rows[n].raised /\ \A j \in 1..(n - 1) : ~rows[j].raised]
    ELSE Return([n \in 1..Len(rows) |-> rows[n].value])

\* what each of the ads of ids, in order, comes to, its insight record what
\* insights_by_ad_id.get(ad_id, {}) gives (line 566)
RowsAt(ids, ads, insights) ==
    [n \in 1..Len(ids) |->
        Row(ids[n], LastWith(ads, "id", ids[n]),
            IF \E i \in 1..Len(insights) : SameKey(insights[i]["ad_id"], ids[n])
            THEN LastWith(insights, "ad_id", ids[n])
            ELSE [k \in {} |-> PyNone])]

\* lines 564-661: the rows
ReportRows(ads, insights) == RowsOf(RowsAt(Reported(KeyOrder(ads, "id"), insights), ads, insights))

\* lines 663-673
ReportResult(a, rows) ==
    [data |-> rows,
     summary |-> [total_ads |-> Len(rows), date_preset |-> a.date_preset,
                  time_range |-> a.time_range, account_id |-> a.act_id,
                  campaign_id |-> a.campaign_id, min_spend_filter |-> a.min_spend]]

\* lines 564-673: the result of the rows, or the error they raised
ResultOf(a, rows) ==
    IF rows.raised THEN rows ELSE Return(ReportResult(a, rows.value))

\* Lines 557-673, the requests req1 and req2 built, the HTTP layer answering
\* the ads request with o1 and the insights request with o2: the requests
\* sent, the outcomes consumed and the result.
ReportOf(a, req1, req2, o1, o2) ==
    LET g1 == MakeGraphApiCall(o1)
        d1 == DataOf(g1.value)
        g2 == MakeGraphApiCall(o2)
        d2 == DataOf(g2.value)
        One(out) == [sent |-> <<req1>>, responses |-> <<o1>>, out |-> out]
        Two(out) == [sent |-> <<req1, req2>>, responses |-> <<o1, o2>>, out |-> out]
    IN  IF g1.raised THEN One(g1)
        ELSE IF d1.raised THEN One(d1)
        ELSE IF KeyFault(d1.value, "id").raised THEN One(KeyFault(d1.value, "id"))
        ELSE IF g2.raised THEN Two(g2)
        ELSE IF d2.raised THEN Two(d2)
        ELSE IF KeyFault(d2.value, "ad_id").raised THEN Two(KeyFault(d2.value, "ad_id"))
        ELSE Two(ResultOf(a, ReportRows(d1.value, d2.value)))

\* lines 503-673 after the credential tok is resolved
ComprehensiveReport(a, tok, o1, o2) ==
    ReportOf(a, AdsRequest(a, tok), InsightsRequest(a, tok), o1, o2)

-----------------------------------------------------------------------------
(* Floats as the doubles they are: float(), +, / and round() of lines
   832-862 in IEEE 754 arithmetic *)

\* floor(log2(n)) of n >= 1
RECURSIVE Log2(_)
Log2(n) == IF n < 2 THEN 0 ELSE 1 + Log2(n \div 2)

\* A natural number of any size is held by its digits in base 2^15, the
\* lowest first and the highest not 0 (zero has none): a limb times a limb
\* stays below 2^31.
Base == 2 ^ 15

LimbAt(n, i) == IF i \in 1..Len(n) THEN n[i] ELSE 0

\* the digits without the zeros at the top
Trim(n) == SubSeq(n, 1, Cardinality({i \in 1..Len(n) : \E j \in i..Len(n) : n[j] # 0}))

\* the number of an int 0 <= n < 2^31, and the int of a number below 2^31
Big(n) == Trim(<<n % Base, (n \div Base) % Base, n \div (Base * Base)>>)

RECURSIVE Small(_)
Small(n) == IF n = << >> THEN 0 ELSE n[1] + Base * Small(Tail(n))

\* the bits of n: their count, bit i (bit 0 the lowest), and whether one of
\* the s lowest is set
BitLen(n) == IF n = << >> THEN 0 ELSE 15 * (Len(n) - 1) + Log2(n[Len(n)]) + 1

Bit(n, i) == (LimbAt(n, (i \div 15) + 1) \div (2 ^ (i % 15))) % 2

AnyBelow(n, s) ==
    \E i \in 1..Len(n) : \/ i <= s \div 15 /\ n[i] # 0
                         \/ i = (s \div 15) + 1 /\ n[i] % (2 ^ (s % 15)) # 0

\* the zero bits below the lowest set bit of n > 0
LowZeros(n) ==
    LET i == CHOOSE k \in 1..Len(n) : n[k] # 0 /\ \A j \in 1..(k - 1) : n[j] = 0
    IN  15 * (i - 1) + (CHOOSE b \in 0..14 : n[i] % (2 ^ (b + 1)) = 2 ^ b)

\* n * 2^s and floor(n / 2^s)
ShiftL(n, s) ==
    Trim([i \in 1..(Len(n) + (s \div 15) + 1) |->
             ((LimbAt(n, i - (s \div 15)) * (2 ^ (s % 15))) % Base)
             + (LimbAt(n, i - (s \div 15) - 1) \div (2 ^ (15 - (s % 15))))])

ShiftR(n, s) ==
    Trim([i \in 1..Len(n) |->
             (LimbAt(n, i + (s \div 15)) \div (2 ^ (s % 15)))
             + ((LimbAt(n, i + (s \div 15) + 1) % (2 ^ (s % 15))) * (2 ^ (15 - (s % 15))))])

\* a < b
Less(a, b) ==
    \/ Len(a) < Len(b)
    \/ /\ Len(a) = Len(b)
       /\ \E i \in 1..Len(a) : a[i] < b[i] /\ \A j \in (i + 1)..Len(a) : a[j] = b[j]

\* a + b, from limb i on with the carry c
RECURSIVE AddFrom(_, _, _, _)
AddFrom(a, b, i, c) ==
    IF i > Len(a) /\ i > Len(b) THEN IF c = 0 THEN << >> ELSE <<c>>
    ELSE <<(LimbAt(a, i) + LimbAt(b, i) + c) % Base>>
         \o AddFrom(a, b, i + 1, (LimbAt(a, i) + LimbAt(b, i) + c) \div Base)

AddN(a, b) == AddFrom(a, b, 1, 0)

\* a - b of a >= b, from limb i on with the borrow c
RECURSIVE SubFrom(_, _, _, _)
SubFrom(a, b, i, c) ==
    IF i > Len(a) THEN << >>
    ELSE <<(a[i] - LimbAt(b, i) - c + Base) % Base>>
         \o SubFrom(a, b, i + 1, IF a[i] - LimbAt(b, i) - c < 0 THEN 1 ELSE 0)

SubN(a, b) == Trim(SubFrom(a, b, 1, 0))

\* n * k of a k <= 2^15: the limbs i..j with the carry c, then the carry out
RECURSIVE MulBlock(_, _, _, _, _)
MulBlock(n, k, i, j, c) ==
    IF i > j THEN <<c>>
    ELSE <<(n[i] * k + c) % Base>> \o MulBlock(n, k, i + 1, j, (n[i] * k + c) \div Base)

\* eight limbs at a time
RECURSIVE MulFrom(_, _, _, _)
RECURSIVE MulNext(_, _, _, _)
MulFrom(n, k, i, c) ==
    IF i > Len(n) THEN <<c>>
    ELSE MulNext(n, k, i, MulBlock(n, k, i, IF i + 7 < Len(n) THEN i + 7 ELSE Len(n), c))

MulNext(n, k, i, block) ==
    SubSeq(block, 1, Len(block) - 1) \o MulFrom(n, k, i + 8, block[Len(block)])

MulSmall(n, k) == Trim(MulFrom(n, k, 1, 0))

\* a quotient and its remainder, of the quotient's limbs from the highest
\* down followed by the remainder
QuotRem(d) == [q |-> Trim([i \in 1..(Len(d) - 1) |-> d[Len(d) - i]]), r |-> d[Len(d)]]

\* n divided by a k <= 2^15: the limbs i down to j with the remainder r
\* come down from above, then the remainder left
RECURSIVE DivBlock(_, _, _, _, _)
DivBlock(n, k, i, j, r) ==
    IF i < j THEN <<r>>
    ELSE <<(r * Base + n[i]) \div k>> \o DivBlock(n, k, i - 1, j, (r * Base + n[i]) % k)

\* eight limbs at a time
RECURSIVE DivFrom(_, _, _, _)
RECURSIVE DivNext(_, _, _, _)
DivFrom(n, k, i, r) ==
    IF i < 1 THEN <<r>>
    ELSE DivNext(n, k, i, DivBlock(n, k, i, IF i - 7 > 1 THEN i - 7 ELSE 1, r))

DivNext(n, k, i, block) ==
    SubSeq(block, 1, Len(block) - 1) \o DivFrom(n, k, i - 8, block[Len(block)])

DivSmall(n, k) == QuotRem(DivFrom(n, k, Len(n), 0))

\* n * 5^e
RECURSIVE MulPow5(_, _)
MulPow5(n, e) ==
    IF n = << >> THEN << >>
    ELSE IF e <= 6 THEN MulSmall(n, 5 ^ e)
    ELSE MulPow5(MulPow5(n, e \div 2), e - (e \div 2))

\* floor(n / 5^f), and whether the division left a remainder
Inexact(d) == [q |-> d.q, sticky |-> d.r # 0]

AlsoInexact(sticky, d) == [q |-> d.q, sticky |-> sticky \/ d.sticky]

RECURSIVE DivPow5(_, _)
RECURSIVE DivThen(_, _)
DivPow5(n, f) ==
    IF n = << >> THEN [q |-> << >>, sticky |-> FALSE]
    ELSE IF f <= 6 THEN Inexact(DivSmall(n, 5 ^ f))
    ELSE DivThen(DivPow5(n, f \div 2), f - (f \div 2))

DivThen(d, f) == AlsoInexact(d.sticky, DivPow5(d.q, f))

\* the largest g + j, j < 2^(b+1), with d * (g + j) <= cur
RECURSIVE DigitOf(_, _, _, _)
DigitOf(cur, d, g, b) ==
    IF b < 0 THEN g
    ELSE IF Less(cur, MulSmall(d, g + 2 ^ b)) THEN DigitOf(cur, d, g, b - 1)
    ELSE DigitOf(cur, d, g + 2 ^ b, b - 1)

\* n divided by d > 0, limb by limb from the top: the limbs i down to 1 with
\* the remainder r come down from above, then the remainder left
RECURSIVE LongFrom(_, _, _, _)
RECURSIVE LongStep(_, _, _, _)
RECURSIVE LongNext(_, _, _, _, _)
LongFrom(n, d, i, r) ==
    IF i < 1 THEN <<r>> ELSE LongStep(n, d, i, Trim(<<n[i]>> \o r))

LongStep(n, d, i, cur) == LongNext(n, d, i, cur, DigitOf(cur, d, 0, 14))

LongNext(n, d, i, cur, g) == <<g>> \o LongFrom(n, d, i - 1, SubN(cur, MulSmall(d, g)))

\* the quotient, and whether the division left a remainder
LongResult(s) ==
    [q |-> Trim([i \in 1..(Len(s) - 1) |-> s[Len(s) - i]]), sticky |-> s[Len(s)] # << >>]

DivBig(n, d) == LongResult(LongFrom(n, d, Len(n), << >>))

\* A double: (-1)^neg * q * 2^x with q of 53 bits at most and odd (zero has
\* q = 0 and keeps its sign), x >= -1074; an infinity; NaN
Double(neg, q, x) == [kind |-> "float", neg |-> neg, q |-> q, x |-> x]

Infinity(neg) == [kind |-> "inf", neg |-> neg, q |-> << >>, x |-> 0]

NotANumber == [kind |-> "nan", neg |-> FALSE, q |-> << >>, x |-> 0]

\* the double q * 2^x of a q of 53 bits at most: infinite from 2^1024 on
Finite(neg, q, x) ==
    IF q = << >> THEN Double(neg, << >>, 0)
    ELSE IF BitLen(q) + x > 1024 THEN Infinity(neg)
    ELSE Double(neg, ShiftR(q, LowZeros(q)), x + LowZeros(q))

\* n / 2^s to the nearest integer, the even one of two at the same distance;
\* sticky: the number is a little more than n
Nearest(n, s, sticky) ==
    IF Bit(n, s - 1) = 1 /\ (sticky \/ AnyBelow(n, s - 1) \/ Bit(n, s) = 1)
    THEN AddN(ShiftR(n, s), <<1>>)
    ELSE ShiftR(n, s)

\* the bits of n * 2^x a double cannot hold: those beyond 53, and those
\* below 2^-1074
Dropped(n, x) == IF BitLen(n) - 53 > 0 - 1074 - x THEN BitLen(n) - 53 ELSE 0 - 1074 - x

\* the double nearest to n * 2^x (sticky: to a little more than it, n then
\* of 55 bits or more)
Rounded(neg, n, x, sticky) ==
    IF Dropped(n, x) <= 0 THEN Finite(neg, n, x)
    ELSE Finite(neg, Nearest(n, Dropped(n, x), sticky), x + Dropped(n, x))

\* the quotient d times 2^x as a double
RoundedQuotient(neg, d, x) == Rounded(neg, d.q, x, d.sticky)

\* the bits a quotient by 10^f is computed to
Precision(f) == 56 + ((7 * f) \div 3)

\* the double nearest to m * 10^e
DoubleOf(neg, m, e) ==
    IF e >= 0 THEN Rounded(neg, MulPow5(Big(m), e), e, FALSE)
    ELSE RoundedQuotient(neg, DivPow5(ShiftL(Big(m), Precision(0 - e)), 0 - e),
                         e - Precision(0 - e))

\* the double a number is
Binary(x) ==
    CASE x.kind = "inf" -> Infinity(x.neg)
      [] x.kind = "nan" -> NotANumber
      [] OTHER -> DoubleOf(x.neg, x.m, x.e)

\* the larger of two finite doubles other than zero by more than 60 bits, if any
Beyond(a, b) == BitLen(a.q) + a.x - BitLen(b.q) - b.x > 60

\* a + b of two finite doubles other than zero, their q brought to the
\* exponent x of the lower one
Aligned(a, b, A, B, x) ==
    IF a.neg = b.neg THEN Rounded(a.neg, AddN(A, B), x, FALSE)
    ELSE IF A = B THEN Double(FALSE, << >>, 0)
    ELSE IF Less(B, A) THEN Rounded(a.neg, SubN(A, B), x, FALSE)
    ELSE Rounded(b.neg, SubN(B, A), x, FALSE)

\* a + b of two doubles: the double nearest to the sum
Add(a, b) ==
    IF a.kind = "nan" \/ b.kind = "nan" THEN NotANumber
    ELSE IF a.kind = "inf"
    THEN IF b.kind = "inf" /\ a.neg # b.neg THEN NotANumber ELSE a
    ELSE IF b.kind = "inf" THEN b
    ELSE IF a.q = << >> /\ b.q = << >> THEN Double(a.neg /\ b.neg, << >>, 0)
    ELSE IF a.q = << >> THEN b
    ELSE IF b.q = << >> THEN a
    ELSE IF Beyond(a, b) THEN a
    ELSE IF Beyond(b, a) THEN b
    ELSE IF a.x < b.x THEN Aligned(a, b, a.q, ShiftL(b.q, b.x - a.x), a.x)
    ELSE Aligned(a, b, ShiftL(a.q, a.x - b.x), b.q, b.x)

\* a / n of a double and an int n > 0: the double nearest to the quotient
Divided(a, n) ==
    IF a.kind # "float" \/ a.q = << >> THEN a
    ELSE RoundedQuotient(a.neg, DivBig(ShiftL(a.q, 55 + BitLen(Big(n))), Big(n)),
                         a.x - 55 - BitLen(Big(n)))

\* the float (-1)^neg * n * 10^e of a number n of any size
RECURSIVE FloatOfBig(_, _, _)
FloatOfBig(neg, n, e) ==
    IF n # << >> /\ DivSmall(n, 10).r = 0 THEN FloatOfBig(neg, DivSmall(n, 10).q, e + 1)
    ELSE Float(neg, Small(n), e)

\* n * 10^j and floor(n / 10^j)
Times10(n, j) == ShiftL(MulPow5(n, j), j)

Over10(n, j) == DivPow5(ShiftR(n, j), j).q

\* The decimals that read back as a whole double v = q * 2^x of more than 53
\* bits, u = x + BitLen(q) - 53 the bits it lacks: the doubles next to it
\* are 2^u away (the one below a power of two 2^(u-1)) and the decimals lie
\* up to half as far from v, from WholeLow to WholeHigh, the two limits
\* among them when the 53 bits of v are even (open: when they are odd)
WholeLow(q, u) ==
    IF q # <<1>> THEN ShiftL(SubN(ShiftL(q, 54 - BitLen(q)), <<1>>), u - 1)
    ELSE IF u = 1 THEN ShiftL(q, 53)
    ELSE ShiftL(SubN(ShiftL(q, 54), <<1>>), u - 2)

WholeHigh(q, u) == ShiftL(AddN(ShiftL(q, 54 - BitLen(q)), <<1>>), u - 1)

Inside(c, lo, hi, open) ==
    IF open THEN Less(lo, c) /\ Less(c, hi) ELSE ~Less(c, lo) /\ ~Less(hi, c)

\* the largest d with d * 10^j inside, if any is
TopMultiple(hi, j, open) ==
    IF open /\ Times10(Over10(hi, j), j) = hi THEN SubN(Over10(hi, j), <<1>>)
    ELSE Over10(hi, j)

\* the largest power of ten, from 10^j down, with a multiple inside
RECURSIVE RoundAt(_, _, _, _)
RoundAt(lo, hi, j, open) ==
    IF \/ j = 0
       \/ /\ TopMultiple(hi, j, open) # << >>
          /\ Inside(Times10(TopMultiple(hi, j, open), j), lo, hi, open)
    THEN j
    ELSE RoundAt(lo, hi, j - 1, open)

\* of d * 10^j <= v < (d + 1) * 10^j the one nearer to v, and the other one
Nearer(v, d, j) ==
    IF Less(Times10(AddN(ShiftL(d, 1), <<1>>), j), ShiftL(v, 1)) THEN AddN(d, <<1>>) ELSE d

Farther(v, d, j) == IF Nearer(v, d, j) = d THEN AddN(d, <<1>>) ELSE d

\* the shortest of the decimals, and of these the one nearest to v
ShortestWhole(neg, v, lo, hi, j, open) ==
    IF Inside(Times10(Nearer(v, Over10(v, j), j), j), lo, hi, open)
    THEN FloatOfBig(neg, Nearer(v, Over10(v, j), j), j)
    ELSE FloatOfBig(neg, Farther(v, Over10(v, j), j), j)

WholeBetween(neg, v, lo, hi, open) ==
    ShortestWhole(neg, v, lo, hi,
                  RoundAt(lo, hi, ((BitLen(hi) * 30103) \div 100000) + 1, open), open)

\* the float of a double that is a whole number q * 2^x, x >= 0: the number
\* itself up to 53 bits
Whole(neg, q, x) ==
    IF x + BitLen(q) <= 53 THEN FloatOfBig(neg, ShiftL(q, x), 0)
    ELSE WholeBetween(neg, ShiftL(q, x), WholeLow(q, x + BitLen(q) - 53),
                      WholeHigh(q, x + BitLen(q) - 53), BitLen(q) = 53)

\* round(a, 2) of a double, as the float it is: the hundredth nearest to the
\* double, the even one of two at the same distance; a whole number, an
\* infinity and NaN are themselves
Hundredths(a) ==
    CASE a.kind = "inf" -> Inf(a.neg)
      [] a.kind = "nan" -> NaN
      [] OTHER ->
            IF a.q = << >> THEN Float(a.neg, 0, 0)
            ELSE IF a.x >= 0 THEN Whole(a.neg, a.q, a.x)
            ELSE FloatOfBig(a.neg, Nearest(MulSmall(a.q, 100), 0 - a.x, FALSE), -2)

\* the largest power of ten p, from p on, with a multiple above lo and up to hi
RECURSIVE RoundPower(_, _, _)
RoundPower(lo, hi, p) ==
    IF p <= hi \div 10 /\ (hi \div (10 * p)) * (10 * p) > lo THEN RoundPower(lo, hi, 10 * p)
    ELSE p

\* The float of the double k * 2^-1074 of a k below 2^29: the shortest decimal
\* nearer to it than to the doubles next to it, and of these the nearest.  In
\* units of 1e-324 the double is c = k * 5^324 / 2^750 and the decimals are
\* the integers between lo = (2k - 1) * 5^324 / 2^751 and hi = (2k + 1) *
\* 5^324 / 2^751.
ShortestOf(neg, lo, hi, p, c) ==
    IF p > 1 THEN Float(neg, (hi \div p) * p, -324)
    ELSE Float(neg, Small(ShiftR(c, 750)) + Bit(c, 749), -324)

Shortest(neg, lo, hi, c) == ShortestOf(neg, lo, hi, RoundPower(lo, hi, 1), c)

Tiny(neg, k) ==
    IF k = 0 THEN Float(neg, 0, 0)
    ELSE Shortest(neg, Small(ShiftR(MulPow5(Big(2 * k - 1), 324), 751)),
                  Small(ShiftR(MulPow5(Big(2 * k + 1), 324), 751)),
                  MulPow5(Big(k), 324))

\* the k of the double k * 2^-1074
Quantum(d) == Small(ShiftL(d.q, d.x + 1074))

-----------------------------------------------------------------------------
(* The summary report, lines 751-867 *)

Digits == {"0", "1", "2", "3", "4", "5", "6", "7", "8", "9"}

DigitVal(c) == CHOOSE n \in 0..9 : ToString(n) = c

\* the text is made of the decimal digits 0-9 only ('' included)
AllDigits(t) == \A i \in 1..Len(t) : SubSeq(t, i, i) \in Digits

\* the whitespace int() and float() allow around a number: that of
\* str.strip() but for \x1c-\x1f
NumberSpace(c) == c \in WS /\ Ord(c) \notin 28..31

\* the largest exponent read digit by digit (any larger one overflows as it does)
MaxExponent == 99999

\* What is read of a numeric text: whether it is one, its sign, whether it
\* has a point or an exponent, the digits before the exponent as m * 10^z
\* (z the zeros read since the last other digit), fd the number of digits
\* after the point, the exponent ex and its sign
NoLiteral ==
    [ok |-> FALSE, neg |-> FALSE, point |-> FALSE, exp |-> FALSE,
     m |-> 0, z |-> 0, fd |-> 0, eneg |-> FALSE, ex |-> 0]

\* one more digit d of the number, after the point or before it
Digit(acc, d, after) ==
    [acc EXCEPT !.m = IF d = 0 THEN @ ELSE @ * Pow10(acc.z + 1) + d,
                !.z = IF d # 0 \/ acc.m = 0 THEN 0 ELSE @ + 1,
                !.fd = IF after THEN @ + 1 ELSE @]

\* The text of a number as int() and float() read it, from character i on:
\* whitespace, an optional sign, digits with single underscores allowed
\* between them, and for float() a point with digits on at least one side of
\* it and an exponent (e or E, an optional sign, digits), then whitespace.
\* st is what was read last: "start", "signed" (the sign), "digits" and
\* "under" (a digit, an underscore before the point), "point0" and "point"
\* (the point, without and with digits before it), "frac" and "funder" (a
\* digit, an underscore after the point), "e", "esigned", "edigits" and
\* "eunder" (the exponent: its letter, its sign, a digit, an underscore),
\* "end" (whitespace after the number).  (The decimal digits of other
\* scripts, which Python also reads, are above U+00FF.)
RECURSIVE Scan(_, _, _, _)
Scan(t, i, st, acc) ==
    LET c == SubSeq(t, i, i)
    IN  IF i > Len(t)
        THEN [acc EXCEPT !.ok = st \in {"digits", "point", "frac", "edigits", "end"}]
        ELSE IF c \in Digits
        THEN IF st \in {"start", "signed", "digits", "under"}
             THEN Scan(t, i + 1, "digits", Digit(acc, DigitVal(c), FALSE))
             ELSE IF st \in {"point0", "point", "frac", "funder"}
             THEN Scan(t, i + 1, "frac", Digit(acc, DigitVal(c), TRUE))
             ELSE IF st \in {"e", "esigned", "edigits", "eunder"}
             THEN Scan(t, i + 1, "edigits",
                       [acc EXCEPT !.ex = IF 10 * @ + DigitVal(c) > MaxExponent
                                          THEN MaxExponent ELSE 10 * @ + DigitVal(c)])
             ELSE NoLiteral
        ELSE IF c \in {"+", "-"}
        THEN IF st = "start" THEN Scan(t, i + 1, "signed", [acc EXCEPT !.neg = (c = "-")])
             ELSE IF st = "e"
             THEN Scan(t, i + 1, "esigned", [acc EXCEPT !.eneg = (c = "-")])
             ELSE NoLiteral
        ELSE IF c = "_"
        THEN IF st \in {"digits", "frac", "edigits"}
             THEN Scan(t, i + 1,
                       IF st = "digits" THEN "under"
                       ELSE IF st = "frac" THEN "funder" ELSE "eunder", acc)
             ELSE NoLiteral
        ELSE IF c = "."
        THEN IF st \in {"start", "signed", "digits"}
             THEN Scan(t, i + 1, IF st = "digits" THEN "point" ELSE "point0",
                       [acc EXCEPT !.point = TRUE])
             ELSE NoLiteral
        ELSE IF c \in {"e", "E"}
        THEN IF st \in {"digits", "point", "frac"}
             THEN Scan(t, i + 1, "e", [acc EXCEPT !.exp = TRUE])
             ELSE NoLiteral
        ELSE IF NumberSpace(c)
        THEN IF st \in {"start", "digits", "point", "frac", "edigits", "end"}
             THEN Scan(t, i + 1, IF st = "start" THEN "start" ELSE "end", acc)
             ELSE NoLiteral
        ELSE NoLiteral

\* the number a text holds
Literal(t) == Scan(t, 1, "start", [NoLiteral EXCEPT !.ok = TRUE])

\* the literal is one of an int: no point, no exponent
IsInt(l) == l.ok /\ ~l.point /\ ~l.exp

\* int(t) succeeds (also type=int of line 723)
IsIntLiteral(t) == IsInt(Literal(t))

\* the strs int() accepts
IsIntText(v) == IsIntLiteral(Text(v))

\* the text without the number whitespace around it
RECURSIVE NumberStrip(_)
NumberStrip(t) ==
    IF t # "" /\ NumberSpace(SubSeq(t, 1, 1)) THEN NumberStrip(SubSeq(t, 2, Len(t)))
    ELSE IF t # "" /\ NumberSpace(SubSeq(t, Len(t), Len(t)))
    THEN NumberStrip(SubSeq(t, 1, Len(t) - 1))
    ELSE t

\* the text with A-Z in lower case
RECURSIVE Lower(_)
Lower(t) ==
    IF t = "" THEN ""
    ELSE IF Len(t) = 1
    THEN IF Ord(t) \in 65..90 THEN SubSeq(Chars, Ord(t) + 32, Ord(t) + 32) ELSE t
    ELSE Lower(SubSeq(t, 1, Len(t) \div 2)) \o Lower(SubSeq(t, (Len(t) \div 2) + 1, Len(t)))

\* The float of a literal with digits: infinite from 1.797693135e308 on, zero
\* below 1e-333.  The double nearest to the number is held by the digits of
\* the literal, which are its repr; below 1e-323 a double has fewer digits
\* than the literal and is held by the shortest that read back as it.
LiteralFloat(l) ==
    LET e == (IF l.eneg THEN 0 - l.ex ELSE l.ex) - l.fd + l.z
        nd == Len(ToString(l.m))
        adj == e + nd - 1
    IN  IF l.m = 0 THEN Float(l.neg, 0, 0)
        ELSE IF adj > 308 THEN Inf(l.neg)
        ELSE IF adj = 308 /\ (IF nd = 10 THEN l.m > 1797693134
                              ELSE l.m * Pow10(9 - nd) > 179769313)
        THEN Inf(l.neg)
        ELSE IF adj < -324 THEN Float(l.neg, 0, 0)
        ELSE IF e < -323 THEN Tiny(l.neg, Quantum(DoubleOf(l.neg, l.m, e)))
        ELSE Float(l.neg, l.m, e)

\* the text without the sign it begins with
Unsigned(u) == IF StartsWith(u, "+") \/ StartsWith(u, "-") THEN SubSeq(u, 2, Len(u)) ELSE u

\* the float of a text, u the text in lower case without the whitespace
\* around it and l the literal read of it: beside the literals float() reads
\* inf, infinity and nan in any case, signed or not
NamedOrLiteral(u, l) ==
    IF Unsigned(u) \in {"inf", "infinity"} THEN Inf(StartsWith(u, "-"))
    ELSE IF Unsigned(u) = "nan" THEN NaN
    ELSE IF l.ok THEN LiteralFloat(l)
    ELSE NoFloat

\* float(t) of a text: NoFloat when float() raises ValueError
FloatOf(t) == NamedOrLiteral(Lower(NumberStrip(t)), Literal(t))

\* the strs float() accepts
IsFloatText(v) == FloatOf(Text(v)).kind # "None"

\* float(s) of a str, x the float of its text
FloatOutcome(s, x) ==
    IF x.kind # "None" THEN Return(x)
    ELSE Raise("ValueError", <<"could not convert string to float: " \o ReprText(Text(s))>>)

\* float(v) of a value: a str is read, an int and a bool are the float of the
\* same value, any other value is a TypeError
ToFloat(v) ==
    CASE v.py = "str" -> FloatOutcome(v.s, FloatOf(Text(v.s)))
      [] v.py = "float" -> Return(v.x)
      [] v.py = "int" -> Return(Float(v.x.neg, v.x.m, 0))
      [] v.py = "bool" -> Return(Float(FALSE, IF v.b THEN 1 ELSE 0, 0))
      [] OTHER ->
            Raise("TypeError",
                  <<"float() argument must be a string or a real number, not '", v.py, "'">>)

\* the repr of a str as the message of int() shows it: its first 200 characters
Shown(s) ==
    IF Len(ReprText(Text(s))) > 200 THEN SubSeq(ReprText(Text(s)), 1, 200)
    ELSE ReprText(Text(s))

\* int(s) of a str, l the literal read of its text
IntOutcome(s, l) ==
    IF IsInt(l) THEN Return((IF l.neg THEN 0 - 1 ELSE 1) * l.m * Pow10(l.z))
    ELSE Raise("ValueError", <<"invalid literal for int() with base 10: " \o Shown(s)>>)

\* int(x) of a float: the fraction is cut off; infinity and NaN have no int
Truncated(x) ==
    CASE x.kind = "inf" ->
            Raise("OverflowError", <<"cannot convert float infinity to integer">>)
      [] x.kind = "nan" -> Raise("ValueError", <<"cannot convert float NaN to integer">>)
      [] OTHER ->
            Return((IF x.neg THEN 0 - 1 ELSE 1)
                   * (IF x.e >= 0 THEN x.m * Pow10(x.e)
                      ELSE IF 0 - x.e > 9 THEN 0
                      ELSE x.m \div Pow10(0 - x.e)))

\* int(v) of a value: a str is read, a float is cut, a bool is 0 or 1, any
\* other value but an int is a TypeError
ToInt(v) ==
    CASE v.py = "str" -> IntOutcome(v.s, Literal(Text(v.s)))
      [] v.py = "int" -> Return(Signed(v.x))
      [] v.py = "float" -> Truncated(v.x)
      [] v.py = "bool" -> Return(IF v.b THEN 1 ELSE 0)
      [] OTHER ->
            Raise("TypeError",
                  <<"int() argument must be a string, a bytes-like object or a real number, not '",
                    v.py, "'">>)

\* round(x, 2) of a number: an int, an infinity and NaN are themselves; a
\* float goes to the hundredth nearest to the double it is
Round2(x) == IF x.kind # "float" THEN x ELSE Hundredths(Binary(x))

\* line 814: int(f) of what float() came to
IntOfFloat(f) == IF f.raised THEN f ELSE Truncated(f.value)

\* lines 809-815: get_conversions(actions) once the scan f is done:
\* int(float(value)) of the first 'purchase' entry, 0 without one
ConversionsAt(actions, f) ==
    IF f.raised THEN f
    ELSE IF f.value = 0 THEN Return(0)
    ELSE IntOfFloat(ToFloat(Member(Items(actions)[f.value].pairs, "value",
                                   PyNumber(Integer(0)))))

\* lines 809-815: get_conversions(actions)
GetConversions(actions) == ConversionsAt(actions, FirstAction(actions, <<"purchase">>))

\* lines 818-824: get_cpa(cost_per_actions) once the scan f is done:
\* float(value) of the first 'purchase' entry, None without one
CpaAt(cost_per_actions, f) ==
    IF f.raised THEN f
    ELSE IF f.value = 0 THEN Return(NoFloat)
    ELSE ToFloat(Member(Items(cost_per_actions)[f.value].pairs, "value",
                        PyNumber(Integer(0))))

\* lines 818-824: get_cpa(cost_per_actions)
GetCpa(cost_per_actions) ==
    CpaAt(cost_per_actions, FirstAction(cost_per_actions, <<"purchase">>))

\* line 832: the spend of one insight record
Spend(ad) == ToFloat(Get(ad, "spend", PyNumber(Integer(0))))

\* lines 839-854: the row appended for one insight record, given what its
\* conversions came to, or the first error one of them raised
RowOf(ad, spend, conversions, cpa, impressions, clicks, ctr, cpc, cpm) ==
    IF spend.raised THEN spend
    ELSE IF conversions.raised THEN conversions
    ELSE IF cpa.raised THEN cpa
    ELSE IF impressions.raised THEN impressions
    ELSE IF clicks.raised THEN clicks
    ELSE IF ctr.raised THEN ctr
    ELSE IF cpc.raised THEN cpc
    ELSE IF cpm.raised THEN cpm
    ELSE Return([ad_id |-> Get(ad, "ad_id", PyNone),
                 ad_name |-> Get(ad, "ad_name", PyNone),
                 campaign_id |-> Get(ad, "campaign_id", PyNone),
                 campaign_name |-> Get(ad, "campaign_name", PyNone),
                 adset_id |-> Get(ad, "adset_id", PyNone),
                 adset_name |-> Get(ad, "adset_name", PyNone),
                 spend |-> Round2(spend.value),
                 impressions |-> impressions.value,
                 clicks |-> clicks.value,
                 ctr |-> ctr.value, cpc |-> cpc.value, cpm |-> cpm.value,
                 conversions |-> conversions.value,
                 cpa |-> IF FalsyNumber(cpa.value) THEN NoFloat ELSE Round2(cpa.value)])

\* lines 832-854: the row of one insight record, or the first error its
\* conversions raise
SummaryRow(ad) ==
    RowOf(ad, Spend(ad),
          GetConversions(Get(ad, "actions", PyList(<< >>))),
          GetCpa(Get(ad, "cost_per_action_type", PyList(<< >>))),
          ToInt(Get(ad, "impressions", PyNumber(Integer(0)))),
          ToInt(Get(ad, "clicks", PyNumber(Integer(0)))),
          ToFloat(Get(ad, "ctr", PyNumber(Integer(0)))),
          ToFloat(Get(ad, "cpc", PyNumber(Integer(0)))),
          ToFloat(Get(ad, "cpm", PyNumber(Integer(0)))))

RECURSIVE Sum(_, _)
Sum(rows, field) ==
    IF rows = << >> THEN 0 ELSE rows[1][field] + Sum(Tail(rows), field)

\* lines 828 and 836: total_spend, the int 0 and the spends added to it in
\* order, each sum the double nearest to it
RECURSIVE TotalSpend(_)
TotalSpend(spends) ==
    IF spends = << >> THEN Integer(0)
    ELSE IF Len(spends) = 1 THEN Add(Double(FALSE, << >>, 0), Binary(spends[1]))
    ELSE Add(TotalSpend(SubSeq(spends, 1, Len(spends) - 1)), Binary(spends[Len(spends)]))

\* line 860: round(total_spend, 2), of the int 0 or of a double
RoundedTotal(total_spend) ==
    IF total_spend.kind = "int" THEN total_spend ELSE Hundredths(total_spend)

\* line 805: f"{date_preset or time_range}"
DateRange(a) ==
    IF ~Falsy(a.date_preset) THEN a.date_preset
    ELSE IF a.time_range.none THEN <<"None">>
    ELSE ReprDict(a.time_range.items)

\* lines 780-797: the insights request
SummaryRequest(a, tok) ==
    Request(Url(a.act_id \o <<"/insights">>),
            Merge(Entry("access_token", tok),
            Merge(Entry("level", <<"ad">>),
            Merge(Entry("fields",
                <<"ad_id,ad_name,campaign_id,campaign_name,adset_id,adset_name,spend,impressions,clicks,ctr,cpc,cpm,actions,cost_per_action_type">>),
            Merge(Entry("limit", a.limit),
            Merge(Entry("filtering", SpendFilter(Integer(0))),
                  DateParams(a.date_preset, a.time_range)))))),
            RequestTimeout)

\* lines 802-806: the payload returned for an error caught by the try
ErrorPayload(a, e) ==
    [error |-> <<"Failed to fetch insights: ">> \o e.msg, date_range |-> DateRange(a)]

\* line 862: round(total_spend / total_conversions, 2) if total_conversions
\* > 0 else 0
AverageCpa(total_spend, total_conversions) ==
    IF total_conversions > 0 THEN Hundredths(Divided(total_spend, total_conversions))
    ELSE Integer(0)

\* lines 856-867: the result, given the rows and the two totals
SummaryResult(a, results, total_spend, total_conversions) ==
    Return([data |-> results,
            summary |-> [total_ads |-> Len(results),
                         total_spend |-> RoundedTotal(total_spend),
                         total_conversions |-> total_conversions,
                         average_cpa |-> AverageCpa(total_spend, total_conversions),
                         date_preset |-> a.date_preset,
                         time_range |-> a.time_range,
                         account_id |-> a.act_id]])

\* lines 831-855: the loop over the records ads_data, rows what each comes to
SummaryLoop(a, ads_data, rows) ==
    IF \E i \in 1..Len(rows) : rows[i].raised
    THEN rows[CHOOSE i \in 1..Len(rows) :
                 rows[i].raised /\ \A j \in 1..(i - 1) : ~rows[j].raised]
    ELSE SummaryResult(a, [i \in 1..Len(rows) |-> rows[i].value],
                       TotalSpend([i \in 1..Len(rows) |-> Spend(ads_data[i]).value]),
                       Sum([i \in 1..Len(rows) |-> rows[i].value], "conversions"))

\* lines 799-806: the try, g what the gateway came to and d its data
SummaryFetch(a, g, d) ==
    IF g.raised THEN Return(ErrorPayload(a, g))
    ELSE IF d.raised THEN Return(ErrorPayload(a, d))
    ELSE SummaryLoop(a, d.value, [i \in 1..Len(d.value) |-> SummaryRow(d.value[i])])

\* Lines 780-867 after the credential tok is resolved, the HTTP layer
\* answering with o.  Only the fetch is inside the try: an error of a row's
\* conversions leaves the function.
SummaryReport(a, tok, o) ==
    SummaryFetch(a, MakeGraphApiCall(o), DataOf(MakeGraphApiCall(o).value))

-----------------------------------------------------------------------------
(* Bounded data of the reports *)

\* the longest ads list, insights list and summary row list of the model
MaxAds == 2
MaxInsights == 2
MaxRows == 2

SeqsUpTo(S, n) == UNION {[1..k -> S] : k \in 0..n}

\* a member of an object: its key and its value
Pair(k, v) == <<<<k>>, v>>

Ad(id, name) == [id |-> PyStr(id), name |-> PyStr(name), status |-> PyStr(<<"ACTIVE">>)]

\* an ad, its id a value of any type
AdOf(id, name) == [Ad(<< >>, name) EXCEPT !.id = id]

\* an ad of a str id and one whose id is the int 1
AdPool ==
    {Ad(<<"a1">>, <<"One">>), AdOf(PyNumber(Integer(1)), <<"Int">>)}

Insight(ad_id, spend) ==
    [ad_id |-> PyStr(ad_id), spend |-> PyStr(spend), impressions |-> PyStr(<<"1", "0">>)]

\* an insight record, its ad_id a value of any type
InsightOf(ad_id, spend) == [Insight(<< >>, spend) EXCEPT !.ad_id = ad_id]

\* the insight record of the first ad
InsightPool == {Insight(<<"a1">>, <<"1", "2", ".", "5", "0">>)}

\* an entry of an action list
Act(type, value) == PyDict(<<Pair("action_type", type), Pair("value", value)>>)

Purchase(value) ==
    Act(PyStr(<<"offsite_conversion.fb_pixel_", "purchase">>), PyStr(value))

SummaryPool ==
    {[ad_id |-> PyStr(<<"a1">>), ad_name |-> PyStr(<<"One">>),
      spend |-> PyStr(<<"1", ".", "2", "3", "7", "5">>),
      impressions |-> PyStr(<<"1", "_", "0", "0", "0">>), clicks |-> PyNumber(Integer(7)),
      ctr |-> PyStr(<<"1", ".", "8", "5", "1", "8", "5", "2">>),
      cpc |-> PyStr(<<"1", "e", "-", "1">>),
      cpm |-> PyNumber(Float(FALSE, 35, -1)),
      actions |-> PyList(<<Act(PyStr(<<"link_click">>), PyStr(<<"7">>)),
                           Purchase(<<"1", "e", "2">>)>>),
      cost_per_action_type |-> PyList(<<Purchase(<<"4", ".", "1", "0", "5">>)>>)],
     [ad_id |-> PyStr(<<"a2">>)],
     [ad_id |-> PyStr(<<"a3">>), spend |-> PyStr(<<"n", "/", "a">>)],
     [ad_id |-> PyStr(<<"a4">>), spend |-> PyStr(<<"2">>), impressions |-> PyNone,
      actions |-> PyList(<<Act(PyNone, PyStr(<<"4">>))>>)]}

\* min_spend: the default 0, 10.0, 2.5 and None
SpendArgs == {Integer(0), Float(FALSE, 10, 0), Float(FALSE, 25, -1), NoFloat}

ReportArgs ==
    {[act_id |-> ActId, date_preset |-> d, time_range |-> t, campaign_id |-> c,
      limit |-> 100, min_spend |-> Integer(0)] :
        d \in PresetArgs, t \in RangeArgs, c \in {None, CampaignId}}
    \cup {[act_id |-> ActId, date_preset |-> <<"last_7d">>, time_range |-> NoneList,
           campaign_id |-> None, limit |-> 100, min_spend |-> s] : s \in SpendArgs}

SummaryArgs ==
    {[act_id |-> ActId, date_preset |-> d, time_range |-> t, limit |-> 50] :
        d \in PresetArgs, t \in RangeArgs}

Ok(body) == Outcome("", << >>, body)

\* the answers the comprehensive report meets among the other tools
SomeAds ==
    {Ok(JData(<<Ad(<<"a1">>, <<"One">>), Ad(<<"a2">>, <<"Two">>)>>)), ApiFailure}

SomeInsights ==
    {Ok(JData(<<Insight(<<"a1">>, <<"1", "2", ".", "5", "0">>)>>)), Ok(JData(<< >>)),
     TimedOut}

\* every ads list and insights list up to the bounds; a list with an entry
\* that lacks its id, one with an id that is a list or a dict, the ads of ids
\* 1 and True, the insight records of an ad that was not fetched and of the
\* ad_id 1.0, and a body without data
AllAds ==
    {Ok(JData(d)) : d \in SeqsUpTo(AdPool, MaxAds)}
    \cup {Ok(JData(<<[name |-> PyStr(<<"No id">>)]>>)),
          Ok(JData(<<[id |-> PyList(<< >>)]>>)),
          Ok(JData(<<AdOf(PyNumber(Integer(1)), <<"Int">>), AdOf(PyBool(TRUE), <<"Bool">>)>>)),
          Ok(JArray(<< >>))}

AllInsights ==
    {Ok(JData(d)) : d \in SeqsUpTo(InsightPool, MaxInsights)}
    \cup {Ok(JData(<<[spend |-> PyStr(<<"3">>)]>>)),
          Ok(JData(<<[ad_id |-> PyDict(<< >>)]>>)),
          Ok(JData(<<Insight(<<"a3">>, <<"7">>)>>)),
          Ok(JData(<<InsightOf(PyNumber(Float(FALSE, 1, 0)), <<"3">>)>>)),
          Ok(JData(<<Insight(<<"a1">>, <<"1", "2", ".", "5", "0">>),
                     InsightOf(PyNumber(Float(FALSE, 1, 0)), <<"3">>)>>)),
          Ok(JObject({}))}

\* the answers the summary report meets among the other tools
SomeRows ==
    {Ok(JData(<<[ad_id |-> PyStr(<<"a1">>), spend |-> PyStr(<<"2">>), clicks |-> PyStr(<<"7">>)]>>)),
     Ok(JData(<<[ad_id |-> PyStr(<<"a2">>)]>>)), ApiFailure, TimedOut}

\* every list of summary rows up to the bound
AllRows ==
    {Ok(JData(d)) : d \in SeqsUpTo(SummaryPool, MaxRows)}
    \cup {Ok(JArray(<< >>)), Ok(JFloat)}

-----------------------------------------------------------------------------
(* The report tools *)

\* the two requests of the comprehensive report meet an answer of O1 and one
\* of O2
ReportAnswered(a, r, req1, req2, O1, O2) ==
    \E o1 \in O1, o2 \in O2 :
        LET c == ReportOf(a, req1, req2, o1, o2)
        IN  /\ sent' = c.sent
            /\ call' = ToolCall("get_comprehensive_ad_report", a, c.responses, c.out, r)

\* get_comprehensive_ad_report, lines 457-673, its arguments drawn from A and
\* the answers to its two requests from O1 and O2
ComprehensiveAdReport(A, O1, O2) ==
    \E a \in A :
        LET r == ResolveToken(FB_ACCESS_TOKEN, environ, argv)
        IN  /\ FB_ACCESS_TOKEN' = r.global
            /\ resolved' = Remember(r.out)
            /\ IF r.out.raised
               THEN /\ sent' = << >>
                    /\ call' = ToolCall("get_comprehensive_ad_report", a, << >>, r.out, r)
               ELSE ReportAnswered(a, r, AdsRequest(a, r.out.value),
                                   InsightsRequest(a, r.out.value), O1, O2)
            /\ UNCHANGED <<environ, argv, pc, seen, writes, mcp, main>>

get_comprehensive_ad_report == ComprehensiveAdReport(ReportArgs, SomeAds, SomeInsights)

\* the request of the summary report meets an answer of O
SummaryAnswered(a, r, req, O) ==
    \E o \in O :
        /\ sent' = <<req>>
        /\ call' = ToolCall("get_summary_report", a, <<o>>,
                            SummaryReport(a, r.out.value, o), r)

\* get_summary_report, lines 751-867, its arguments drawn from A and the
\* answer to its request from O: the credential is resolved outside the try
\* of line 799
GetSummaryReport(A, O) ==
    \E a \in A :
        LET r == ResolveToken(FB_ACCESS_TOKEN, environ, argv)
        IN  /\ FB_ACCESS_TOKEN' = r.global
            /\ resolved' = Remember(r.out)
            /\ IF r.out.raised
               THEN /\ sent' = << >>
                    /\ call' = ToolCall("get_summary_report", a, << >>, r.out, r)
               ELSE SummaryAnswered(a, r, SummaryRequest(a, r.out.value), O)
            /\ UNCHANGED <<environ, argv, pc, seen, writes, mcp, main>>

get_summary_report == GetSummaryReport(SummaryArgs, SomeRows)

Next ==
    \/ list_ad_accounts \/ get_details_of_ad_account \/ get_campaigns_by_adaccount
    \/ get_campaign_by_id \/ get_adsets_by_campaign \/ get_adset_by_id
    \/ get_ads_by_adset \/ get_ad_by_id \/ get_campaign_insights
    \/ get_adset_insights \/ get_ad_insights \/ get_comprehensive_ad_report
    \/ fetch_pagination_url \/ get_summary_report

Spec == Init /\ [][Next]_vars

\* the tools that resolve the credential and go through the gateway
GatewayTools ==
    {"list_ad_accounts", "get_details_of_ad_account", "get_campaigns_by_adaccount",
     "get_campaign_by_id", "get_adsets_by_campaign", "get_adset_by_id",
     "get_ads_by_adset", "get_ad_by_id", "get_campaign_insights",
     "get_adset_insights", "get_ad_insights", "get_comprehensive_ad_report",
     "get_summary_report"}

\* C1: every call of get_summary_report returns, and what it returns is the
\* {data, summary} object or the {error, date_range} payload, whatever the
\* credential resolution, the fetch and the rows did.
C1_SummaryAlwaysReturns ==
    call.op = "get_summary_report" =>
        /\ ~call.out.raised
        /\ DOMAIN call.out.value \in {{"data", "summary"}, {"error", "date_range"}}

\* C8: a request of a resource tool or a report tool carries an access_token
\* equal to the credential the call resolved, and a call whose resolution
\* failed sends nothing; fetch_pagination_url sends the URL it was given with
\* no parameter at all.
C8_TokenInEveryRequest ==
    /\ call.op \in GatewayTools =>
            IF call.cred.raised THEN sent = << >>
            ELSE /\ sent # << >>
                 /\ \A i \in 1..Len(sent) :
                        /\ "access_token" \in DOMAIN sent[i].params
                        /\ sent[i].params["access_token"] = call.cred.value
    /\ call.op = "fetch_pagination_url" =>
            /\ Len(sent) = 1
            /\ sent[1].url = call.args.url
            /\ DOMAIN sent[1].params = {}

\* a comprehensive report that sent both its requests with the credential
\* taken from the command line
C8_Witness ==
    /\ call.op = "get_comprehensive_ad_report"
    /\ ~call.cred.raised
    /\ call.cred.value = TokC
    /\ Len(sent) = 2

\* the tools that take both date_preset and time_range
RangeTools == {"get_campaign_insights", "get_comprehensive_ad_report", "get_summary_report"}

\* the last call sent its insights request (the second request of the
\* comprehensive report, the only one of the other two)
SentInsights ==
    /\ call.op \in RangeTools
    /\ Len(sent) = IF call.op = "get_comprehensive_ad_report" THEN 2 ELSE 1

InsightsParams == sent[Len(sent)].params

\* C10: whenever a time_range is supplied the insights request carries
\* time_range and no date_preset, and date_preset is sent only when no
\* time_range is supplied.
C10_SuppliedRangeWins ==
    SentInsights =>
        /\ ~call.args.time_range.none =>
                /\ "time_range" \in DOMAIN InsightsParams
                /\ "date_preset" \notin DOMAIN InsightsParams
        /\ "date_preset" \in DOMAIN InsightsParams => call.args.time_range.none

-----------------------------------------------------------------------------
(* The reports over every list of ads, insights and rows: SpecReport.       *)

DefaultReportArgs ==
    [act_id |-> ActId, date_preset |-> <<"last_30d">>, time_range |-> NoneList,
     campaign_id |-> None, limit |-> 100, min_spend |-> Integer(0)]

InitReport == InitGateway

comprehensive_report_rows == ComprehensiveAdReport({DefaultReportArgs}, AllAds, AllInsights)

DefaultSummaryArgs ==
    [act_id |-> ActId, date_preset |-> <<"last_7d">>, time_range |-> NoneList,
     limit |-> 50]

summary_report_rows == GetSummaryReport({DefaultSummaryArgs}, AllRows)

NextReport == comprehensive_report_rows \/ summary_report_rows

SpecReport == InitReport /\ [][NextReport]_vars

\* the data of the answers the last comprehensive report met
AdsMet == DataOf(call.responses[1].body).value
InsightsMet == DataOf(call.responses[2].body).value

\* C9: when the comprehensive report returns, each of its rows is the row of
\* one ad of the ads fetch that has an insight record of the same id in the
\* insights fetch, no two rows are of the same ad, an ad of the ads fetch
\* without an insight record has no row, and summary.total_ads is the number
\* of rows.  Two ids are the same when they are the same key of a dict.
C9_RowsAreAdsWithInsights ==
    (call.op = "get_comprehensive_ad_report" /\ ~call.out.raised) =>
        LET rows == call.out.value.data
        IN  /\ \A n \in 1..Len(rows) :
                /\ \E i \in 1..Len(AdsMet) : AdsMet[i]["id"] = rows[n].ad_id
                /\ \E j \in 1..Len(InsightsMet) :
                        SameKey(InsightsMet[j]["ad_id"], rows[n].ad_id)
            /\ \A m, n \in 1..Len(rows) : SameKey(rows[m].ad_id, rows[n].ad_id) => m = n
            /\ \A i \in 1..Len(AdsMet) :
                (\A j \in 1..Len(InsightsMet) :
                        ~SameKey(InsightsMet[j]["ad_id"], AdsMet[i]["id"]))
                    => \A n \in 1..Len(rows) : ~SameKey(rows[n].ad_id, AdsMet[i]["id"])
            /\ call.out.value.summary.total_ads = Len(rows)

\* two ads fetched, one of them with an insight record: one row
C9_Witness ==
    /\ call.op = "get_comprehensive_ad_report"
    /\ ~call.out.raised
    /\ Len(AdsMet) = 2
    /\ \E i \in 1..2 :
          \A j \in 1..Len(InsightsMet) : ~SameKey(InsightsMet[j]["ad_id"], AdsMet[i]["id"])
    /\ Len(call.out.value.data) = 1
    /\ call.out.value.summary.total_ads = 1

-----------------------------------------------------------------------------
(* The row of one ad and one insight record, over the shapes an ad and an   *)
(* insight record can take: specification SpecRows.                         *)

NoDict == [k \in {} |-> PyNone]

\* a dict without the key, or with it and one of the values
Opt(k, V) == {NoDict} \cup {k :> v : v \in V}

\* the members of an object without the key, or with it and one of the values
OptPair(k, V) == {<< >>} \cup {<<Pair(k, v)>> : v \in V}

Str1(t) == PyStr(<<t>>)
Empty == PyStr(<< >>)
Zero == PyNumber(Integer(0))
NoObject == PyDict(<< >>)

\* what object_story_spec can be: null, empty, with video data that has an
\* id (a str, a number, null) or none, with null or empty video data, with
\* other data
StorySpecs ==
    {PyNone, NoObject,
     PyDict(<<Pair("video_data", PyDict(<<Pair("video_id", Str1("9"))>>))>>),
     PyDict(<<Pair("video_data", PyDict(<<Pair("video_id", PyNumber(Integer(9)))>>))>>),
     PyDict(<<Pair("video_data", PyDict(<<Pair("video_id", PyNone)>>))>>),
     PyDict(<<Pair("video_data", PyDict(<<Pair("title", Str1("T"))>>))>>),
     PyDict(<<Pair("video_data", PyNone)>>),
     PyDict(<<Pair("video_data", NoObject)>>),
     PyDict(<<Pair("link_data", PyDict(<<Pair("link", Str1("l"))>>))>>)}

\* the values of a URL member that are false
NoUrls == {Empty, PyNone, Zero}

\* What creative can be: null, empty, a str, and an object with an id and
\* any of a thumbnail URL, an image URL and an object_story_spec (every
\* object_story_spec where both URLs are false).
Creatives ==
    {PyDict(<<Pair("id", Str1("cr1"))>> \o t \o i \o o) :
        t \in OptPair("thumbnail_url", {Empty}),
        i \in OptPair("image_url", NoUrls),
        o \in OptPair("object_story_spec", StorySpecs)}
    \cup {PyDict(<<Pair("id", Str1("cr1"))>> \o t \o i \o o) :
            t \in OptPair("thumbnail_url", NoUrls \cup {Str1("t.jpg")}),
            i \in OptPair("image_url", {Empty, Str1("i.jpg")}),
            o \in OptPair("object_story_spec",
                          {PyDict(<<Pair("video_data",
                                         PyDict(<<Pair("video_id", Str1("9"))>>))>>)})}
    \cup {PyNone, NoObject, Str1("cr3"),
          PyDict(<<Pair("id", Str1("cr2")), Pair("object_story_spec", Str1("s"))>>),
          PyDict(<<Pair("id", Str1("cr2")), Pair("thumbnail_url", Str1("t.jpg")),
                   Pair("object_story_spec", Str1("s"))>>),
          PyDict(<<Pair("object_story_spec",
                        PyDict(<<Pair("video_data", PyList(<<Str1("9")>>))>>))>>)}

BaseAd == Ad(<<"a1">>, <<"One">>)

\* the ad with each creative, or with none
CreativeAds == {BaseAd} \cup {("creative" :> c) @@ BaseAd : c \in Creatives}

\* what campaign and adset can be: null, empty, false in another way, an
\* object with an id and a name or with a name alone, a number
Nested ==
    {PyNone, NoObject, Empty, PyBool(FALSE),
     PyDict(<<Pair("id", Str1("1")), Pair("name", Str1("A"))>>),
     PyDict(<<Pair("name", Str1("A"))>>),
     PyNumber(Integer(7))}

\* the ad with its campaign nested, flat, both or neither, and the same of
\* its ad set
CampaignAds ==
    {c @@ f @@ BaseAd :
        c \in Opt("campaign", Nested), f \in Opt("campaign_id", {Str1("2")})}
    \cup {a @@ g @@ [campaign_id |-> Str1("2")] @@ BaseAd :
            a \in Opt("adset", Nested), g \in Opt("adset_id", {Str1("6")})}

Lead == PyStr(Pixel("lead"))
Messaging == PyStr(<<"onsite_conversion", ".messaging">>)
PurchaseType == Str1("purchase")
PixelType == PyStr(PixelPurchase)

\* What an action list can be: null, empty, with several matching entries, a
\* substring match before an exact one, entries without action_type or
\* without value, values that are false ('', 0, 0.0, false, [], {}) or a
\* number, an entry whose action_type is null.
ActionLists ==
    {PyNone, PyList(<< >>),
     PyList(<<Act(PixelType, Str1("3"))>>),
     PyList(<<Act(Str1("link_click"), Str1("7")), Act(PurchaseType, Str1("2")),
              Act(PixelType, Str1("3"))>>),
     PyList(<<Act(PyStr(<<"omni_", "purchase">>), Str1("5")), Act(PurchaseType, Str1("2"))>>),
     PyList(<<Act(Messaging, Str1("6")), Act(Lead, Str1("4"))>>),
     PyList(<<Act(Messaging, Str1("6"))>>),
     PyList(<<Act(PurchaseType, Empty), Act(Lead, Str1("4"))>>),
     PyList(<<Act(PurchaseType, Empty)>>),
     PyList(<<Act(PurchaseType, Zero), Act(Lead, Str1("4"))>>),
     PyList(<<Act(PurchaseType, Zero), Act(Messaging, PyNumber(Float(FALSE, 0, 0)))>>),
     PyList(<<Act(PurchaseType, PyList(<< >>)), Act(PixelType, NoObject),
              Act(Lead, PyBool(FALSE)), Act(Messaging, Str1("6"))>>),
     PyList(<<Act(PurchaseType, PyNumber(Integer(3)))>>),
     PyList(<<PyDict(<<Pair("action_type", PurchaseType)>>), Act(Lead, Str1("4"))>>),
     PyList(<<PyDict(<<Pair("value", Str1("1"))>>), Act(Str1("link_click"), Str1("7")),
              Act(Str1("link_click"), Str1("8"))>>),
     PyList(<<Act(PyStr(<<"page_", "like">>), Str1("12")), Act(Str1("like"), Str1("1"))>>),
     PyList(<<Act(PyNone, Str1("4")), Act(PurchaseType, Str1("2"))>>),
     PyList(<<Act(PurchaseType, Str1("2")), Act(PyNone, Str1("4"))>>)}

BaseInsight == Insight(<<"a1">>, <<"1", "2", ".", "5", "0">>)

VideoViews == PyList(<<Act(Str1("video_view"), Str1("11"))>>)

\* the insight record with each action list as its actions and its costs, as
\* its costs alone, or with none
ActionInsights ==
    {BaseInsight}
    \cup {[actions |-> l, cost_per_action_type |-> l, video_play_actions |-> VideoViews]
            @@ BaseInsight : l \in ActionLists}
    \cup {[cost_per_action_type |-> l, video_p25_watched_actions |-> VideoViews]
            @@ BaseInsight : l \in ActionLists}

FewAds == {BaseAd, [campaign_id |-> Str1("2")] @@ BaseAd}

One(S) == {Ok(JData(<<x>>)) : x \in S}

InitRows == InitGateway

\* the report of one ad of every shape
report_row_of_ad ==
    ComprehensiveAdReport({DefaultReportArgs}, One(CreativeAds \cup CampaignAds),
                          One({BaseInsight}))

\* the report of one insight record of every shape
report_row_of_insight ==
    ComprehensiveAdReport({DefaultReportArgs}, One(FewAds), One(ActionInsights))

NextRows == report_row_of_ad \/ report_row_of_insight

SpecRows == InitRows /\ [][NextRows]_vars

\* the last call is a report that fetched one ad and its insight record
OneAd ==
    /\ call.op = "get_comprehensive_ad_report"
    /\ Len(call.responses) = 2
    /\ Len(AdsMet) = 1 /\ Len(InsightsMet) = 1
    /\ InsightsMet[1]["ad_id"] = AdsMet[1]["id"]

\* and it returned the row of the ad
OneRow == OneAd /\ ~call.out.raised /\ Len(call.out.value.data) = 1

RowMet == call.out.value.data[1]
AdMet == AdsMet[1]
InsightMet == InsightsMet[1]
ActionsMet == Get(InsightMet, "actions", PyList(<< >>))
CostsMet == Get(InsightMet, "cost_per_action_type", PyList(<< >>))

\* the member of an object, null when the value is no object or has none
MemberOf(v, k) == IF v.py = "dict" THEN Member(v.pairs, k, PyNone) ELSE PyNone

\* the entries of an action list, none when it is absent, null or empty
EntriesOf(list) == IF list.py = "list" THEN list.items ELSE << >>

\* the action_type of the entry is a text that has the key as a substring
TypeContains(entry, key) ==
    /\ MemberOf(entry, "action_type").py = "str"
    /\ Contains(MemberOf(entry, "action_type").s, key)

\* the positions of the entries whose action_type contains the key
Hits(list, key) == {i \in 1..Len(EntriesOf(list)) : TypeContains(EntriesOf(list)[i], key)}

\* the value of the first of them, null when there is none
Flattened(list, key) ==
    IF Hits(list, key) = {} THEN PyNone
    ELSE MemberOf(EntriesOf(list)[CHOOSE i \in Hits(list, key) :
                                      \A j \in Hits(list, key) : i <= j], "value")

\* the fields of a row that flatten one list with one key
FlatFields ==
    {<<"landing_page_views", "actions", <<"landing_page_view">> >>,
     <<"link_clicks", "actions", <<"link_click">> >>,
     <<"outbound_clicks", "actions", <<"outbound_click">> >>,
     <<"post_reactions", "actions", <<"post_reaction">> >>,
     <<"post_comments", "actions", <<"comment">> >>,
     <<"post_saves", "actions", <<"post_save">> >>,
     <<"post_shares", "actions", <<"post_share">> >>,
     <<"post_engagement", "actions", <<"post_engagement">> >>,
     <<"page_likes", "actions", <<"like">> >>,
     <<"video_3_sec_plays", "video_continuous_2_sec_watched_actions", <<"video_view">> >>,
     <<"video_plays_25_percent", "video_p25_watched_actions", <<"video_view">> >>,
     <<"video_plays_50_percent", "video_p50_watched_actions", <<"video_view">> >>,
     <<"video_plays_75_percent", "video_p75_watched_actions", <<"video_view">> >>,
     <<"video_plays_100_percent", "video_p100_watched_actions", <<"video_view">> >>,
     <<"video_plays", "video_play_actions", <<"video_view">> >>,
     <<"thru_plays", "video_thruplay_watched_actions", <<"video_view">> >>}

\* C13: for an ad without nested objects, every flattened field of the row
\* is the value of the first entry, in list order, whose action_type contains
\* the lookup key as a substring, and null when the list is empty or absent
\* or has no such entry (purchases and cost_per_purchase are then null when
\* no entry contains one of their keys); a list holding only an
\* 'offsite_conversion.fb_pixel_purchase' entry of value '3' gives purchases
\* '3'.
C13_FirstSubstringMatch ==
    (OneAd /\ AdMet \in FewAds) =>
        /\ ~call.out.raised
        /\ \A f \in FlatFields :
              RowMet[f[1]] = Flattened(Get(InsightMet, f[2], PyList(<< >>)), f[3])
        /\ (\A k \in 1..4 : Hits(ActionsMet, PurchaseKeys[k]) = {}) =>
              RowMet.purchases = PyNone
        /\ (\A k \in 1..4 : Hits(CostsMet, PurchaseKeys[k]) = {}) =>
              RowMet.cost_per_purchase = PyNone
        /\ ActionsMet = PyList(<<Act(PixelType, Str1("3"))>>) =>
              RowMet.purchases = Str1("3")

\* what the four lookups of the keys come to, in their order
Lookups(list) == [k \in 1..4 |-> GetActionValue(list, PurchaseKeys[k])]

\* the lookup came to a value that is not null
NonNull(found) == ~found.raised /\ found.value # PyNone

\* the lookup came to a value that is true: not null, not false, not a zero,
\* not an empty str, list or object
Truthy(found) == ~found.raised /\ ~FalsyValue(found.value)

\* the value of the first lookup that satisfies P, last when none does
FirstOr(found, P(_), last) ==
    IF \E k \in 1..4 : P(found[k])
    THEN found[CHOOSE k \in 1..4 : P(found[k]) /\ \A j \in 1..(k - 1) : ~P(found[j])].value
    ELSE last

\* C12 (as claimed): purchases and cost_per_purchase are the value of the
\* first of the four lookups, in order, that is non-null, and null only when
\* all four are null.
C12_FirstNonNull ==
    OneRow =>
        /\ RowMet.purchases = FirstOr(Lookups(ActionsMet), NonNull, PyNone)
        /\ RowMet.cost_per_purchase = FirstOr(Lookups(CostsMet), NonNull, PyNone)

\* C12 (amended): purchases and cost_per_purchase are the value of the first
\* of the four lookups, in order, that is true (not null, false, a zero or an
\* empty str, list or object), and the value of the last lookup
\* ('onsite_conversion') when none is.
C12_FirstTruthy ==
    OneRow =>
        /\ RowMet.purchases =
              FirstOr(Lookups(ActionsMet), Truthy, Lookups(ActionsMet)[4].value)
        /\ RowMet.cost_per_purchase =
              FirstOr(Lookups(CostsMet), Truthy, Lookups(CostsMet)[4].value)

\* purchases found by the third key after the first found a zero and the
\* second nothing
C12_Witness ==
    /\ OneRow
    /\ Lookups(ActionsMet)[1].value = Zero
    /\ Lookups(ActionsMet)[2].value = PyNone
    /\ Lookups(ActionsMet)[3].value = Str1("4")
    /\ RowMet.purchases = Str1("4")

\* the value is an object, empty or not
IsObject(v) == v.py = "dict"

\* C14 (as claimed): campaign_id and ad_set_id come from the nested campaign /
\* adset object when the ad has one and from the flat field otherwise.
C14_NestedWhenPresent ==
    OneRow =>
        /\ RowMet.campaign_id =
              IF IsObject(Get(AdMet, "campaign", PyNone))
              THEN MemberOf(AdMet["campaign"], "id")
              ELSE Get(AdMet, "campaign_id", PyNone)
        /\ RowMet.ad_set_id =
              IF IsObject(Get(AdMet, "adset", PyNone))
              THEN MemberOf(AdMet["adset"], "id")
              ELSE Get(AdMet, "adset_id", PyNone)

\* C14 (amended): campaign_id and ad_set_id come from the nested campaign /
\* adset object when the ad has one that is not empty (its id, null when it
\* has none) and from the flat field otherwise; the id of a nested object
\* wins over a flat one.
C14_NestedWhenNonEmpty ==
    OneRow =>
        /\ RowMet.campaign_id =
              IF IsObject(Get(AdMet, "campaign", PyNone)) /\ AdMet["campaign"] # NoObject
              THEN MemberOf(AdMet["campaign"], "id")
              ELSE Get(AdMet, "campaign_id", PyNone)
        /\ RowMet.ad_set_id =
              IF IsObject(Get(AdMet, "adset", PyNone)) /\ AdMet["adset"] # NoObject
              THEN MemberOf(AdMet["adset"], "id")
              ELSE Get(AdMet, "adset_id", PyNone)
        /\ MemberOf(Get(AdMet, "campaign", PyNone), "id") # PyNone =>
              RowMet.campaign_id = MemberOf(AdMet["campaign"], "id")

\* nested campaign {id: '1', name: 'A'} with flat campaign_id '2': '1'
C14_Witness ==
    /\ OneRow
    /\ "campaign" \in DOMAIN AdMet /\ "campaign_id" \in DOMAIN AdMet
    /\ AdMet["campaign"] = PyDict(<<Pair("id", Str1("1")), Pair("name", Str1("A"))>>)
    /\ AdMet["campaign_id"] = Str1("2")
    /\ RowMet.campaign_id = Str1("1")

\* the creative of the ad met and what the asset URL is made of, null for
\* what the ad has not
CreativeMet == Get(AdMet, "creative", PyNone)
ThumbnailMet == MemberOf(CreativeMet, "thumbnail_url")
ImageMet == MemberOf(CreativeMet, "image_url")
VideoDataMet == MemberOf(MemberOf(CreativeMet, "object_story_spec"), "video_data")

\* the value is true in Python's sense
IsTrue(v) == ~FalsyValue(v)

\* C15 (as claimed): asset_url is the thumbnail URL if the creative has one,
\* otherwise its image URL if it has one, otherwise "Video ID: {id}" with the
\* video id of object_story_spec.video_data, and null in every other case.
C15_AssetUrlOrNull ==
    OneRow =>
        RowMet.asset_url =
            IF IsTrue(ThumbnailMet) THEN ThumbnailMet
            ELSE IF IsTrue(ImageMet) THEN ImageMet
            ELSE IF IsObject(VideoDataMet) /\ HasKey(VideoDataMet.pairs, "video_id")
            THEN PyStr(<<"Video ID: ">> \o Str(MemberOf(VideoDataMet, "video_id")))
            ELSE PyNone

\* C15 (amended): asset_url is the thumbnail URL if the creative has a true
\* one, otherwise its image URL if it has a true one, otherwise, when
\* object_story_spec.video_data is a non-empty object, "Video ID: {id}" with
\* the text of its video_id ("None" when that is null), or "Video ID: N/A"
\* when it has none; in every other case it is the creative's image_url as
\* it is (false or null), and null without a creative.
C15_AssetUrlOrDefault ==
    OneRow =>
        RowMet.asset_url =
            IF IsTrue(ThumbnailMet) THEN ThumbnailMet
            ELSE IF IsTrue(ImageMet) THEN ImageMet
            ELSE IF IsObject(VideoDataMet) /\ VideoDataMet # NoObject
            THEN PyStr(<<"Video ID: ">>
                       \o (IF HasKey(VideoDataMet.pairs, "video_id")
                           THEN Str(MemberOf(VideoDataMet, "video_id"))
                           ELSE <<"N/A">>))
            ELSE ImageMet

\* a creative with neither URL and with video data: the synthesized string
C15_Witness ==
    /\ OneRow
    /\ IsObject(CreativeMet)
    /\ ~IsTrue(ThumbnailMet) /\ ~IsTrue(ImageMet)
    /\ VideoDataMet = PyDict(<<Pair("video_id", Str1("9"))>>)
    /\ RowMet.asset_url = PyStr(<<"Video ID: ", "9">>)

-----------------------------------------------------------------------------
(* The module executed from its first line, as the program                  *)
(* (python server.py ...) or imported: specification SpecMain.              *)

\* the option strings of the parser of lines 718-726: those argparse adds
\* for help, and one for each add_argument
HelpStrings == {"-h", "--help"}
OptionStrings == HelpStrings \cup {"--fb-token", "--transport", "--port", "--host"}

\* the outcome of parser.parse_args() (line 728): args.transport when it
\* returns; otherwise the process ends there, with status 0 after the help
\* text, 2 after an argparse error
Parsed(transport) == [exits |-> FALSE, code |-> 0, transport |-> transport]
Help == [exits |-> TRUE, code |-> 0, transport |-> << >>]
Usage == [exits |-> TRUE, code |-> 2, transport |-> << >>]

\* argparse's _negative_number_matcher, '^-\d+$|^-\d*\.\d+$' ($ also matches
\* before a final newline)
IsNegativeNumber(t) ==
    LET u == IF t # "" /\ SubSeq(t, Len(t), Len(t)) = "\n"
             THEN SubSeq(t, 1, Len(t) - 1) ELSE t
        d == SubSeq(u, 2, Len(u))
        p == Find(d, ".", 1)
    IN  /\ StartsWith(u, "-")
        /\ \/ d # "" /\ AllDigits(d)
           \/ /\ p # 0
              /\ AllDigits(SubSeq(d, 1, p - 1))
              /\ p < Len(d) /\ AllDigits(SubSeq(d, p + 1, Len(d)))

\* what _parse_optional makes of an argument: a positional ("A"), an option
\* of the parser with the argument attached to it (explicit, << >> for None),
\* an option the parser does not have (option ""), or an ambiguous prefix
Positional == [kind |-> "A", option |-> "", explicit |-> << >>]
Optional(option, explicit) == [kind |-> "O", option |-> option, explicit |-> explicit]
Ambiguous == [kind |-> "ambiguous", option |-> "", explicit |-> << >>]

\* _get_option_tuples: the options an argument that is no option string can
\* stand for.  After two dashes, those the text before '=' is a prefix of;
\* after one, the two-character option with the rest attached.
OptionTuples(t) ==
    LET eq == Find(t, "=", 1)
        prefix == IF eq = 0 THEN t ELSE SubSeq(t, 1, eq - 1)
        explicit == IF eq = 0 THEN << >> ELSE <<SubSeq(t, eq + 1, Len(t))>>
    IN  IF SubSeq(t, 2, 2) = "-"
        THEN {Optional(o, explicit) : o \in {x \in OptionStrings : StartsWith(x, prefix)}}
        ELSE {Optional(o, <<SubSeq(t, 3, Len(t))>>) :
                 o \in {x \in OptionStrings : x = SubSeq(t, 1, 2)}}
             \cup {Optional(o, << >>) :
                     o \in {x \in OptionStrings : x # SubSeq(t, 1, 2) /\ StartsWith(x, t)}}

\* _parse_optional(arg_string)
ParseOptional(t) ==
    LET eq == Find(t, "=", 1)
        tuples == OptionTuples(t)
    IN  IF t = "" \/ SubSeq(t, 1, 1) # "-" THEN Positional
        ELSE IF t \in OptionStrings THEN Optional(t, << >>)
        ELSE IF Len(t) = 1 THEN Positional
        ELSE IF eq # 0 /\ SubSeq(t, 1, eq - 1) \in OptionStrings
        THEN Optional(SubSeq(t, 1, eq - 1), <<SubSeq(t, eq + 1, Len(t))>>)
        ELSE IF Cardinality(tuples) > 1 THEN Ambiguous
        ELSE IF Cardinality(tuples) = 1 THEN CHOOSE o \in tuples : TRUE
        ELSE IF IsNegativeNumber(t) THEN Positional
        ELSE IF Find(t, " ", 1) # 0 THEN Positional
        ELSE Optional("", << >>)

\* the pattern of the arguments (texts): what each one is, "-" for the first
\* '--', after which every argument is a positional
ArgPattern(args) ==
    LET dd == IF \E i \in 1..Len(args) : args[i] = "--"
              THEN CHOOSE i \in 1..Len(args) :
                      args[i] = "--" /\ \A j \in 1..(i - 1) : args[j] # "--"
              ELSE Len(args) + 1
    IN  [i \in 1..Len(args) |->
            IF i < dd THEN ParseOptional(args[i])
            ELSE IF i = dd THEN [kind |-> "-", option |-> "", explicit |-> << >>]
            ELSE Positional]

\* -hX: a single-dash option that takes no argument, with text attached: the
\* text is read as further single-dash options; TRUE when all of them are -h
\* (the help is then shown), FALSE when argparse reports an error
RECURSIVE HelpChain(_)
HelpChain(explicit) ==
    IF explicit = "" THEN TRUE
    ELSE SubSeq(explicit, 1, 1) = "h" /\ HelpChain(SubSeq(explicit, 2, Len(explicit)))

\* take_action of an option with its one value: the transport afterwards, or
\* the error of the type or choices check.  _get_values drops a value that
\* is '--' and stores the empty list that is left, unconverted and
\* unchecked (<< >> here: a transport that equals no transport name).
TakeValue(option, value, transport) ==
    IF value = "--" THEN Parsed(IF option = "--transport" THEN << >> ELSE transport)
    ELSE IF option = "--transport"
    THEN IF value \in {"stdio", "sse"} THEN Parsed(<<value>>) ELSE Usage
    ELSE IF option = "--port" /\ ~IsIntLiteral(value) THEN Usage
    ELSE Parsed(transport)

\* The loop of _parse_known_args from argument i on: arguments that are no
\* option and no value of one are extras, reported once the last argument is
\* passed; an option takes the value attached to it or else the argument
\* after it, which must be a positional; help ends the process.
RECURSIVE Consume(_, _, _, _, _)
Consume(args, pat, i, transport, extras) ==
    IF i > Len(args) THEN (IF extras THEN Usage ELSE Parsed(transport))
    ELSE IF pat[i].kind # "O" \/ pat[i].option = ""
    THEN Consume(args, pat, i + 1, transport, TRUE)
    ELSE IF pat[i].explicit # << >>
    THEN IF pat[i].option \in HelpStrings
         THEN IF /\ pat[i].option = "-h" /\ pat[i].explicit[1] # ""
                 /\ HelpChain(pat[i].explicit[1])
              THEN Help ELSE Usage
         ELSE LET v == TakeValue(pat[i].option, pat[i].explicit[1], transport)
              IN  IF v.exits THEN v
                  ELSE Consume(args, pat, i + 1, v.transport, extras)
    ELSE IF pat[i].option \in HelpStrings THEN Help
    ELSE
      LET v == TakeValue(pat[i].option, args[i + 1], transport)
      IN  IF i = Len(args) \/ pat[i + 1].kind # "A" THEN Usage
          ELSE IF v.exits THEN v
          ELSE Consume(args, pat, i + 2, v.transport, extras)

\* parser.parse_args() of line 728 over sys.argv[1:]: an ambiguous prefix is
\* an error before any option is acted on
ParseArgs(av) ==
    LET args == [i \in 1..(Len(av) - 1) |-> Text(av[i + 1])]
        pat == ArgPattern(args)
    IN  IF \E i \in 1..Len(args) : pat[i].kind = "ambiguous" THEN Usage
        ELSE Consume(args, pat, 1, <<"stdio">>, FALSE)

\* encodings sys.stdout can have (PYTHONIOENCODING, the locale)
StdoutEncodings == {"utf-8", "cp1252", "ascii", "latin-1"}

\* The two lines printed in sse mode (lines 738-739) begin with the characters
\* U+00F0 U+0178 U+0161 U+20AC and U+00F0 U+0178 U+201C U+00A1: the encodings
\* that have them all
EncodesBanner(encoding) == encoding \in {"utf-8", "cp1252"}

\* str(e) of the UnicodeEncodeError of the print of line 738
BannerError(encoding) ==
    IF encoding = "ascii"
    THEN <<"'ascii' codec can't encode characters in position 0-3: ",
           "ordinal not in range(128)">>
    ELSE <<"'latin-1' codec can't encode characters in position 1-3: ",
           "ordinal not in range(256)">>

\* the command lines of the program: those of Argvs, and some that only the
\* parser of line 728 tells apart
CommandLines ==
    Argvs \cup { <<Prog, FlagText \o <<"=">> \o TokA>>, <<Prog, <<"-h">> >>,
                 <<Prog, <<"--transport=sse">> >>, <<Prog, <<"--port">>, <<"-1">> >>,
                 <<Prog, <<"--transport">>, <<"http">> >> }

InitMain ==
    /\ environ \in Environs
    /\ argv \in CommandLines
    /\ FB_ACCESS_TOKEN = None
    /\ call = NoCall
    /\ sent = << >>
    /\ resolved = None
    /\ NoThreads
    /\ mcp = << >>
    /\ \E name \in {"__main__", "server"}, encoding \in StdoutEncodings :
            main = [Main(name, "tools", 0) EXCEPT !.stdout = encoding]

\* lines 118-708: the next @mcp.tool() above the entry point registers its tool
Decorate ==
    /\ main.at = "tools"
    /\ Len(mcp) < Len(ToolsAboveMain)
    /\ mcp' = Append(mcp, ToolsAboveMain[Len(mcp) + 1])
    /\ UNCHANGED <<environ, argv, FB_ACCESS_TOKEN, call, sent, resolved, pc, seen, writes,
                   main>>

\* line 715: if __name__ == "__main__"
EntryPoint ==
    /\ main.at = "tools"
    /\ Len(mcp) = Len(ToolsAboveMain)
    /\ main' = [main EXCEPT !.at = IF main.name = "__main__" THEN "parse_args" ELSE "below"]
    /\ UNCHANGED <<environ, argv, FB_ACCESS_TOKEN, call, sent, resolved, pc, seen, writes,
                   mcp>>

\* lines 716-728: the arguments are parsed, or the process exits with 2
ParseCommandLine ==
    /\ main.at = "parse_args"
    /\ LET args == ParseArgs(argv)
       IN  /\ main' = IF args.exits THEN [main EXCEPT !.at = "exit", !.code = args.code]
                      ELSE [main EXCEPT !.at = "validate"]
           /\ call' = Call("parse_args", << >>, << >>, Return(args.transport), FALSE, FALSE)
    /\ UNCHANGED <<environ, argv, FB_ACCESS_TOKEN, sent, resolved, pc, seen, writes, mcp>>

\* lines 730-734: the credential is resolved, or the process exits with 1
ValidateToken ==
    /\ main.at = "validate"
    /\ LET r == ResolveToken(FB_ACCESS_TOKEN, environ, argv)
       IN  /\ FB_ACCESS_TOKEN' = r.global
           /\ resolved' = Remember(r.out)
           /\ call' = Call("_get_fb_access_token", call.out.value, << >>, r.out,
                           r.readEnv, r.readArgv)
           /\ main' = IF r.out.raised THEN [main EXCEPT !.at = "exit", !.code = 1]
                      ELSE [main EXCEPT !.at = "run"]
    /\ UNCHANGED <<environ, argv, sent, pc, seen, writes, mcp>>

\* lines 737-743: in sse mode the two lines are printed first, and a stdout
\* that cannot encode them ends the process with the UnicodeEncodeError
\* (status 1); otherwise mcp.run is entered with the transport of the command
\* line (call.args, kept from the parse) and serves the tools registered so
\* far
Run ==
    /\ main.at = "run"
    /\ IF Text(call.args) = "sse" /\ ~EncodesBanner(main.stdout)
       THEN /\ main' = [main EXCEPT !.at = "exit", !.code = 1]
            /\ call' = Call("print", call.args, << >>,
                            Raise("UnicodeEncodeError", BannerError(main.stdout)),
                            FALSE, FALSE)
       ELSE /\ main' = [main EXCEPT !.at = "serving"]
            /\ call' = Call("mcp.run", call.args, << >>, Pending, FALSE, FALSE)
    /\ UNCHANGED <<environ, argv, FB_ACCESS_TOKEN, sent, resolved, pc, seen, writes, mcp>>

\* mcp.run returns when its transport is closed; the module goes on below
\* the entry point
RunReturns ==
    /\ main.at = "serving"
    /\ main' = [main EXCEPT !.at = "below"]
    /\ call' = Call("mcp.run", call.args, << >>, Return(None), FALSE, FALSE)
    /\ UNCHANGED <<environ, argv, FB_ACCESS_TOKEN, sent, resolved, pc, seen, writes, mcp>>

\* lines 751-752: the @mcp.tool() below the entry point registers its tool
DecorateBelow ==
    /\ main.at = "below"
    /\ mcp' = mcp \o ToolsBelowMain
    /\ main' = [main EXCEPT !.at = "end"]
    /\ UNCHANGED <<environ, argv, FB_ACCESS_TOKEN, call, sent, resolved, pc, seen, writes>>

NextMain ==
    \/ Decorate \/ EntryPoint \/ ParseCommandLine \/ ValidateToken
    \/ Run \/ RunReturns \/ DecorateBelow

SpecMain == InitMain /\ [][NextMain]_vars

\* C16: while the program serves (mcp.run has been entered and has not
\* returned), every tool of the module, get_summary_report included, is
\* registered.
C16_RegisteredBeforeRun ==
    main.at = "serving" =>
        \A i \in 1..Len(ToolsAboveMain \o ToolsBelowMain) :
            \E j \in 1..Len(mcp) : mcp[j] = (ToolsAboveMain \o ToolsBelowMain)[i]

=============================================================================
